---------------------------- MODULE Spec2Model ----------------------------
(***************************************************************************)
(* Model of the weather-lstm engine (src/weather-lstm): the dense matrix   *)
(* module, the LSTM cell and network, the training-data builder, the       *)
(* trainer, model save/load and the training program.                      *)
(*                                                                         *)
(* Memory is modelled at the granularity of malloc: `mem` is the heap, a   *)
(* sequence of blocks indexed by address; address 0 is the null pointer.   *)
(* Every function of the C code is an operator that takes the machine      *)
(* state `s` and returns the new machine state (void functions) or a       *)
(* record [s, p] / [s, v] (functions returning a pointer / a value).       *)
(* Where a function uses the result of a call in several later statements, *)
(* the rest of the function is an operator of its own that takes the       *)
(* result as a parameter; it is named after the function and the variable  *)
(* the result is assigned to (matrix_create_data: matrix_create from the   *)
(* assignment of m->data on).                                              *)
(*                                                                         *)
(* A C double is modelled as a fixed-point number: the integer v stands    *)
(* for v / Scale.  Products are rescaled (FMul); exp() and tanh() are not  *)
(* available, so sigmoid and tanh are their piecewise-linear ("hard")      *)
(* forms, which keep the range, the monotonicity and the value at 0.       *)
(***************************************************************************)
EXTENDS Integers, Sequences, FiniteSets, TLC

VARIABLES
  mach,    \* the machine: heap, allocator budget, rand() state, files
  netp,    \* the caller's LSTMNetwork* (0 = none)
  loadedp, \* the LSTMNetwork* returned by the last load_lstm_model
  dsp,     \* the caller's WeatherDataset*
  tdp,     \* the caller's TrainingData*
  ret,     \* the last call: its name, arguments and result
  hist,    \* history: snapshots taken at creation / save time
  pc,      \* position of the training program (main)
  steps    \* number of operations performed so far

vars == <<mach, netp, loadedp, dsp, tdp, ret, hist, pc, steps>>

----------------------------------------------------------------------------
(* Bounds of the model *)

Scale == 4          \* fixed-point denominator: v stands for v / Scale
MaxSteps == 2       \* operations per behaviour
MaxSeqLen == 2      \* longest sequence handed to lstm_network_predict
MaxPoints == 4      \* largest dataset
MaxEpochs == 2      \* most epochs of one lstm_train call

(* Program constants *)

NumFeatures == 6    \* fields of a WeatherPoint / rows of its matrix
RandMax == 7        \* RAND_MAX of the modelled rand()

NULL == 0
GARBAGE == -1       \* an uninitialised pointer

----------------------------------------------------------------------------
(* Arithmetic on fixed-point doubles *)

Min(S) == CHOOSE x \in S : \A y \in S : x <= y
Max(S) == CHOOSE x \in S : \A y \in S : x >= y

FMul(a, b) == (a * b) \div Scale
FDiv(a, b) == (a * Scale) \div b

Clamp(x, lo, hi) == IF x < lo THEN lo ELSE IF x > hi THEN hi ELSE x

\* sqrt of a fixed-point number: the largest k with (k/Scale)^2 <= x/Scale
FSqrt(x) == Max({k \in 0..(x + Scale) : k * k <= x * Scale})

\* the array of n elements, each v
Array(n, v) == SubSeq([i \in 1..n |-> v], 1, n)

\* the sequence f[1], ..., f[n]
Elems(f, n) == SubSeq(f, 1, n)

RECURSIVE SeqSum(_)
SeqSum(q) == IF q = <<>> THEN 0 ELSE Head(q) + SeqSum(Tail(q))

----------------------------------------------------------------------------
(* The heap *)

\* C executes its statements in order.  After(x, e) is e, computed once x
\* (the state or the result the statement before has produced) is computed.
After(x, e) == IF DOMAIN x = DOMAIN x THEN e ELSE e

FreeBlk == [kind |-> "free"]

IsLive(s, p) == p \in 1..Len(s.mem) /\ s.mem[p].kind # "free"

Live(s) == {a \in 1..Len(s.mem) : s.mem[a].kind # "free"}

Flag(s, what) == [s EXCEPT !.ub = @ \cup {what}]

\* the address malloc hands out: the lowest free one
NextAddr(s) ==
  IF \E a \in 1..Len(s.mem) : s.mem[a].kind = "free"
  THEN Min({a \in 1..Len(s.mem) : s.mem[a].kind = "free"})
  ELSE Len(s.mem) + 1

\* the block blk placed at the free address a
MallocAt(s, a, blk) ==
  [s |-> [s EXCEPT !.mem = IF a > Len(s.mem) THEN Append(s.mem, blk)
                           ELSE [s.mem EXCEPT ![a] = blk],
                   !.oom = IF @ > 0 THEN @ - 1 ELSE @],
   p |-> a]

\* malloc / calloc of `size` elements holding `blk`.  A request fails when
\* the allocator budget is exhausted (oom = 0; oom < 0 is "never fails") or
\* the size is negative (a huge size_t); malloc(0) returns NULL or a unique
\* pointer, as the C library chooses (s.malloc0null).
Malloc(s, size, blk) ==
  IF s.oom = 0 \/ size < 0 \/ (size = 0 /\ s.malloc0null)
  THEN [s |-> s, p |-> NULL]
  ELSE MallocAt(s, NextAddr(s), blk)

\* free(p): free(NULL) is a no-op; freeing anything that is not a live
\* block (a second free, a garbage pointer) is undefined behaviour.
Free(s, p) ==
  IF p = NULL THEN s
  ELSE IF ~IsLive(s, p) THEN Flag(s, "bad free")
  ELSE [s EXCEPT !.mem[p] = FreeBlk]

\* free of each pointer of ps, in order
RECURSIVE FreeAll(_, _)
FreeAll(s, ps) ==
  IF ps = <<>> THEN s ELSE After(s, FreeAll(Free(s, Head(ps)), Tail(ps)))

----------------------------------------------------------------------------
(* Matrix module: src/weather-lstm/src/lstm.c 538-790 *)

IsMatrix(s, p) == IsLive(s, p) /\ s.mem[p].kind = "Matrix"
Rows(s, p) == s.mem[p].rows
Cols(s, p) == s.mem[p].cols
RowAddr(s, p, i) == s.mem[s.mem[p].data].ptrs[i]             \* m->data[i]
Get(s, p, i, j) == s.mem[RowAddr(s, p, i)].vals[j]           \* m->data[i][j]

\* The value of a matrix: its rows as sequences (<<>> for a null pointer)
Val(s, p) ==
  IF ~IsMatrix(s, p) THEN <<>>
  ELSE Elems([i \in 1..Rows(s, p) |-> s.mem[RowAddr(s, p, i)].vals], Rows(s, p))

Shape(s, p) == IF ~IsMatrix(s, p) THEN <<-1, -1>> ELSE <<Rows(s, p), Cols(s, p)>>

\* rows i.. of Store
RECURSIVE store_rows(_, _, _, _)
store_rows(s, p, v, i) ==
  IF i > Rows(s, p) THEN s
  ELSE store_rows([s EXCEPT !.mem[RowAddr(s, p, i)].vals = Elems(v[i], Cols(s, p))],
                  p, v, i + 1)

\* for every i, j: m->data[i][j] = v[i][j]
Store(s, p, v) == store_rows(s, p, v, 1)

\* the result r of matrix_create, if not null, filled with the values v
Filled(r, v) == IF r.p = NULL THEN r ELSE [s |-> Store(r.s, r.p, v), p |-> r.p]

\* lines 553-564 of matrix_create: the allocation of rows i.. (1-based) of
\* the matrix m with the row array data; r is the result of calloc for row i
RECURSIVE matrix_create_rows(_, _, _, _)
RECURSIVE matrix_create_row(_, _, _, _)
matrix_create_row(r, m, data, i) ==
  IF r.p = NULL
  THEN [s |-> Free(Free(FreeAll(r.s, SubSeq(r.s.mem[data].ptrs, 1, i - 1)), data), m),
        p |-> NULL]
  ELSE matrix_create_rows([r.s EXCEPT !.mem[data].ptrs[i] = r.p], m, data, i + 1)

matrix_create_rows(s, m, data, i) ==
  IF i > s.mem[m].rows THEN [s |-> s, p |-> m]
  ELSE matrix_create_row(Malloc(s, s.mem[m].cols,
                                [kind |-> "row", vals |-> Array(s.mem[m].cols, 0)]),
                         m, data, i)

\* lines 548-552 of matrix_create: r is the result of malloc for m->data
matrix_create_data(r, m) ==
  IF r.p = NULL THEN [s |-> Free(r.s, m), p |-> NULL]
  ELSE matrix_create_rows([r.s EXCEPT !.mem[m].data = r.p], m, r.p, 1)

\* lines 543-548 of matrix_create: r is the result of malloc(sizeof(Matrix))
matrix_create_m(r, rows) ==
  IF r.p = NULL THEN [s |-> r.s, p |-> NULL]
  ELSE matrix_create_data(Malloc(r.s, rows, [kind |-> "ptrs",
                                             ptrs |-> Array(rows, GARBAGE)]), r.p)

matrix_create(s, rows, cols) ==
  matrix_create_m(Malloc(s, 1, [kind |-> "Matrix", rows |-> rows, cols |-> cols,
                                data |-> GARBAGE]), rows)

matrix_free(s, p) ==
  IF p = NULL THEN s
  ELSE IF ~IsMatrix(s, p) THEN Flag(s, "bad free")
  ELSE Free(Free(FreeAll(s, SubSeq(s.mem[s.mem[p].data].ptrs, 1, Rows(s, p))),
                 s.mem[p].data), p)

\* matrix_free on each pointer of ps, in order
RECURSIVE FreeMatrices(_, _)
FreeMatrices(s, ps) ==
  IF ps = <<>> THEN s ELSE After(s, FreeMatrices(matrix_free(s, Head(ps)), Tail(ps)))

matrix_zero(s, p) ==
  IF p = NULL THEN s
  ELSE Store(s, p, [i \in 1..Rows(s, p) |-> [j \in 1..Cols(s, p) |-> 0]])

\* rand(): a linear congruential generator on 0..RandMax
RandNext(x) == (5 * x + 3) % (RandMax + 1)

RECURSIVE RandIter(_, _)
RandIter(x, k) == IF k = 0 THEN x ELSE RandIter(RandNext(x), k - 1)

\* matrix_random draws rows*cols numbers in row-major order; each is
\* min + (rand() / RAND_MAX) * (max - min)
matrix_random(s, p, min, max) ==
  IF p = NULL THEN s
  ELSE [Store(s, p, [i \in 1..Rows(s, p) |-> [j \in 1..Cols(s, p) |->
                min + FMul(FDiv(RandIter(s.rng, (i - 1) * Cols(s, p) + j), RandMax),
                           max - min)]])
        EXCEPT !.rng = RandIter(s.rng, Rows(s, p) * Cols(s, p))]

matrix_copy(s, dest, src) ==
  IF dest = NULL \/ src = NULL \/ Rows(s, dest) # Rows(s, src)
     \/ Cols(s, dest) # Cols(s, src)
  THEN s
  ELSE Store(s, dest, [i \in 1..Rows(s, src) |-> [j \in 1..Cols(s, src) |->
                         Get(s, src, i, j)]])

\* matrix_multiply with an inner loop that stops one term early
matrix_multiply_short(s, a, b) ==
  IF a = NULL \/ b = NULL \/ Cols(s, a) # Rows(s, b) THEN [s |-> s, p |-> NULL]
  ELSE Filled(matrix_create(s, Rows(s, a), Cols(s, b)),
              [i \in 1..Rows(s, a) |-> [j \in 1..Cols(s, b) |->
                 SeqSum([k \in 1..(Cols(s, a) - 1) |->
                           FMul(Get(s, a, i, k), Get(s, b, k, j))])]])

matrix_multiply(s, a, b) ==
  IF a = NULL \/ b = NULL \/ Cols(s, a) # Rows(s, b) THEN [s |-> s, p |-> NULL]
  ELSE Filled(matrix_create(s, Rows(s, a), Cols(s, b)),
              [i \in 1..Rows(s, a) |-> [j \in 1..Cols(s, b) |->
                 SeqSum([k \in 1..Cols(s, a) |->
                           FMul(Get(s, a, i, k), Get(s, b, k, j))])]])

\* matrix_add that answers operands of different shapes with a copy of a
matrix_add_lenient(s, a, b) ==
  IF a = NULL \/ b = NULL THEN [s |-> s, p |-> NULL]
  ELSE Filled(matrix_create(s, Rows(s, a), Cols(s, a)),
              [i \in 1..Rows(s, a) |-> [j \in 1..Cols(s, a) |->
                 Get(s, a, i, j)
                 + IF Rows(s, a) # Rows(s, b) \/ Cols(s, a) # Cols(s, b) THEN 0
                   ELSE Get(s, b, i, j)]])

matrix_add(s, a, b) ==
  IF a = NULL \/ b = NULL \/ Rows(s, a) # Rows(s, b) \/ Cols(s, a) # Cols(s, b)
  THEN [s |-> s, p |-> NULL]
  ELSE Filled(matrix_create(s, Rows(s, a), Cols(s, a)),
              [i \in 1..Rows(s, a) |-> [j \in 1..Cols(s, a) |->
                 Get(s, a, i, j) + Get(s, b, i, j)]])

matrix_subtract(s, a, b) ==
  IF a = NULL \/ b = NULL \/ Rows(s, a) # Rows(s, b) \/ Cols(s, a) # Cols(s, b)
  THEN [s |-> s, p |-> NULL]
  ELSE Filled(matrix_create(s, Rows(s, a), Cols(s, a)),
              [i \in 1..Rows(s, a) |-> [j \in 1..Cols(s, a) |->
                 Get(s, a, i, j) - Get(s, b, i, j)]])

matrix_transpose(s, p) ==
  IF p = NULL THEN [s |-> s, p |-> NULL]
  ELSE Filled(matrix_create(s, Cols(s, p), Rows(s, p)),
              [i \in 1..Cols(s, p) |-> [j \in 1..Rows(s, p) |-> Get(s, p, j, i)]])

matrix_scale(s, p, scalar) ==
  IF p = NULL THEN s
  ELSE Store(s, p, [i \in 1..Rows(s, p) |-> [j \in 1..Cols(s, p) |->
                      FMul(Get(s, p, i, j), scalar)]])

\* 1 / (1 + exp(-x)), piecewise linear: 1/2 + x/4 clamped to [0, 1]
sigmoid(x) == Clamp((2 * Scale + x) \div 4, 0, Scale)

\* tanh(x), piecewise linear: x clamped to [-1, 1]
tanh_activation(x) == Clamp(x, -Scale, Scale)

apply_sigmoid(s, p) ==
  IF p = NULL THEN s
  ELSE Store(s, p, [i \in 1..Rows(s, p) |-> [j \in 1..Cols(s, p) |->
                      sigmoid(Get(s, p, i, j))]])

apply_tanh(s, p) ==
  IF p = NULL THEN s
  ELSE Store(s, p, [i \in 1..Rows(s, p) |-> [j \in 1..Cols(s, p) |->
                      tanh_activation(Get(s, p, i, j))]])


\* row and col are the 0-based indices of the C code
matrix_get(s, m, row, col) ==
  IF m = NULL \/ row < 0 \/ row >= Rows(s, m) \/ col < 0 \/ col >= Cols(s, m) THEN 0
  ELSE Get(s, m, row + 1, col + 1)

\* matrix_set that folds an index beyond the last row or column back into
\* the matrix
matrix_set_wrapped(s, m, row, col, value) ==
  IF m = NULL \/ row < 0 \/ col < 0 THEN s
  ELSE [s EXCEPT !.mem[RowAddr(s, m, (row % Rows(s, m)) + 1)].vals[(col % Cols(s, m)) + 1]
                   = value]

matrix_set(s, m, row, col, value) ==
  IF m = NULL \/ row < 0 \/ row >= Rows(s, m) \/ col < 0 \/ col >= Cols(s, m) THEN s
  ELSE [s EXCEPT !.mem[RowAddr(s, m, row + 1)].vals[col + 1] = value]
----------------------------------------------------------------------------
(* LSTM cell: src/weather-lstm/src/lstm.c 4-185 *)

initialize_weights(s, p, scale) ==
  IF p = NULL THEN s
  ELSE matrix_random(s, p,
         -FMul(FSqrt(FDiv(6 * Scale, (Rows(s, p) + Cols(s, p)) * Scale)), scale),
         FMul(FSqrt(FDiv(6 * Scale, (Rows(s, p) + Cols(s, p)) * Scale)), scale))

\* the matrices of a cell in the order lstm_cell_create allocates them, each
\* with its shape in terms of hidden_size ("h"), input_size ("i") and 1
CellMatrices ==
  << <<"W_f", "h", "i">>, <<"W_i", "h", "i">>, <<"W_c", "h", "i">>, <<"W_o", "h", "i">>,
     <<"U_f", "h", "h">>, <<"U_i", "h", "h">>, <<"U_c", "h", "h">>, <<"U_o", "h", "h">>,
     <<"b_f", "h", "1">>, <<"b_i", "h", "1">>, <<"b_c", "h", "1">>, <<"b_o", "h", "1">>,
     <<"cell_state", "h", "1">>, <<"hidden_state", "h", "1">>,
     <<"forget_gate", "h", "1">>, <<"input_gate", "h", "1">>,
     <<"candidate_gate", "h", "1">>, <<"output_gate", "h", "1">> >>

CellNames == Elems([k \in 1..Len(CellMatrices) |-> CellMatrices[k][1]], Len(CellMatrices))
WeightNames == SubSeq(CellNames, 1, 8)
BiasNames == SubSeq(CellNames, 9, 12)

\* the pointers cell->W_f, ..., cell->output_gate in declaration order
CellPtrs(s, cell) == Elems([k \in 1..Len(CellNames) |-> s.mem[cell][CellNames[k]]],
                           Len(CellNames))

lstm_cell_free(s, cell) ==
  IF cell = NULL THEN s ELSE Free(FreeMatrices(s, CellPtrs(s, cell)), cell)

\* a dimension of CellMatrices for the cell
CellDim(s, cell, d) ==
  IF d = "h" THEN s.mem[cell].hidden_size
  ELSE IF d = "i" THEN s.mem[cell].input_size ELSE 1

\* lines 21-45: the 18 matrix_create calls from the k-th on; r is the result
\* of the k-th, stored in the cell
RECURSIVE cell_create_matrices(_, _, _)
RECURSIVE cell_create_matrix(_, _, _)
cell_create_matrix(r, cell, k) ==
  After(r, cell_create_matrices([r.s EXCEPT !.mem[cell][CellMatrices[k][1]] = r.p],
                                cell, k + 1))

cell_create_matrices(s, cell, k) ==
  IF k > Len(CellMatrices) THEN s
  ELSE cell_create_matrix(matrix_create(s, CellDim(s, cell, CellMatrices[k][2]),
                                        CellDim(s, cell, CellMatrices[k][3])),
                          cell, k)

\* lines 58-66: initialize_weights on W_f .. U_o in order, from the k-th on
RECURSIVE cell_init_weights(_, _, _)
cell_init_weights(s, cell, k) ==
  IF k > Len(WeightNames) THEN s
  ELSE After(s, cell_init_weights(
                   initialize_weights(s, s.mem[cell][WeightNames[k]], Scale),
                   cell, k + 1))

\* matrix_zero on each pointer of ps, in order
RECURSIVE ZeroAll(_, _)
ZeroAll(s, ps) ==
  IF ps = <<>> THEN s ELSE After(s, ZeroAll(matrix_zero(s, Head(ps)), Tail(ps)))

\* lstm_cell_create_biases without the loop that sets b_f to 1.0
lstm_cell_create_biases_zero(s, cell) ==
  ZeroAll(s, <<s.mem[cell].b_f, s.mem[cell].b_i, s.mem[cell].b_c, s.mem[cell].b_o,
               s.mem[cell].cell_state, s.mem[cell].hidden_state>>)

\* lines 68-79: the biases and the states
lstm_cell_create_biases(s, cell) ==
  ZeroAll(Store(matrix_zero(s, s.mem[cell].b_f), s.mem[cell].b_f,
                [i \in 1..s.mem[cell].hidden_size |-> <<Scale>>]),
          <<s.mem[cell].b_i, s.mem[cell].b_c, s.mem[cell].b_o,
            s.mem[cell].cell_state, s.mem[cell].hidden_state>>)

\* lines 47-81: s is the state after the 18 matrix_create calls
lstm_cell_create_check(s, cell) ==
  IF \E k \in 1..Len(CellNames) : s.mem[cell][CellNames[k]] = NULL
  THEN [s |-> lstm_cell_free(s, cell), p |-> NULL]
  ELSE [s |-> lstm_cell_create_biases(cell_init_weights(s, cell, 1), cell), p |-> cell]

\* lines 15-45: r is the result of malloc(sizeof(LSTMCell))
lstm_cell_create_cell(r) ==
  IF r.p = NULL THEN [s |-> r.s, p |-> NULL]
  ELSE lstm_cell_create_check(cell_create_matrices(r.s, r.p, 1), r.p)

lstm_cell_create(s, input_size, hidden_size) ==
  lstm_cell_create_cell(
    Malloc(s, 1, [kind |-> "LSTMCell",
                  input_size |-> input_size, hidden_size |-> hidden_size]
                 @@ [n \in {CellNames[k] : k \in 1..Len(CellNames)} |-> GARBAGE]))

\* lstm_cell_reset_state that clears the hidden state only
lstm_cell_reset_state_hidden(s, cell) ==
  IF cell = NULL THEN s ELSE matrix_zero(s, s.mem[cell].hidden_state)

lstm_cell_reset_state(s, cell) ==
  IF cell = NULL THEN s
  ELSE matrix_zero(matrix_zero(s, s.mem[cell].cell_state), s.mem[cell].hidden_state)

\* the four gates of lstm_cell_forward in the order it computes them:
\* input weights, recurrent weights, bias, gate matrix, activation
Gates ==
  << <<"W_f", "U_f", "b_f", "forget_gate", "sigmoid">>,
     <<"W_i", "U_i", "b_i", "input_gate", "sigmoid">>,
     <<"W_c", "U_c", "b_c", "candidate_gate", "tanh">>,
     <<"W_o", "U_o", "b_o", "output_gate", "sigmoid">> >>

\* lines 131-132 (137-138, 143-144, 149-150): the gate is overwritten by
\* temp2 and the activation is applied to it
forward_gate_copy(s, gate, temp2, act) ==
  IF act = "sigmoid" THEN apply_sigmoid(matrix_copy(s, gate, temp2), gate)
  ELSE apply_tanh(matrix_copy(s, gate, temp2), gate)

\* lines 127-153: gate k and the following ones.  Each gate is
\* act(W*input + U*hidden_state + b); its four temporaries W_x, U_h, temp
\* and temp2 are appended to tmps, they are freed at the end of the pass.
RECURSIVE forward_gates(_, _, _, _, _)
RECURSIVE forward_gate_U_h(_, _, _, _, _)
RECURSIVE forward_gate_temp(_, _, _, _, _, _)
RECURSIVE forward_gate_temp2(_, _, _, _, _)
RECURSIVE forward_gate_done(_, _, _, _, _)
forward_gate_done(temp2, cell, input, k, tmps) ==
  After(temp2,
    forward_gates(forward_gate_copy(temp2.s, temp2.s.mem[cell][Gates[k][4]], temp2.p,
                                    Gates[k][5]),
                  cell, input, k + 1, Append(tmps, temp2.p)))

forward_gate_temp2(temp, cell, input, k, tmps) ==
  After(temp,
    forward_gate_done(matrix_add(temp.s, temp.p, temp.s.mem[cell][Gates[k][3]]),
                      cell, input, k, Append(tmps, temp.p)))

forward_gate_temp(U_h, W_x, cell, input, k, tmps) ==
  After(U_h,
    forward_gate_temp2(matrix_add(U_h.s, W_x, U_h.p), cell, input, k,
                       Append(tmps, U_h.p)))

\* forward_gate_U_h of a cell whose gates read the cell state in place of the
\* hidden state
forward_gate_U_h_cell(W_x, cell, input, k, tmps) ==
  After(W_x,
    forward_gate_temp(matrix_multiply(W_x.s, W_x.s.mem[cell][Gates[k][2]],
                                      W_x.s.mem[cell].cell_state),
                      W_x.p, cell, input, k, Append(tmps, W_x.p)))

forward_gate_U_h(W_x, cell, input, k, tmps) ==
  After(W_x,
    forward_gate_temp(matrix_multiply(W_x.s, W_x.s.mem[cell][Gates[k][2]],
                                      W_x.s.mem[cell].hidden_state),
                      W_x.p, cell, input, k, Append(tmps, W_x.p)))

forward_gates(s, cell, input, k, tmps) ==
  After(s,
    IF k > Len(Gates) THEN [s |-> s, tmps |-> tmps]
    ELSE forward_gate_U_h(matrix_multiply(s, s.mem[cell][Gates[k][1]], input),
                          cell, input, k, tmps))

\* forward_output of a cell that hands out its own hidden_state matrix
forward_output_alias(output, cell) ==
  After(output, [s |-> matrix_free(output.s, output.p),
                 p |-> output.s.mem[cell].hidden_state])

\* lines 183-185: output is the result of the last matrix_create
forward_output(output, cell) ==
  After(output,
    [s |-> matrix_copy(output.s, output.p, output.s.mem[cell].hidden_state),
     p |-> output.p])

\* lines 174-183: the hidden state, the frees and the allocation of output
forward_hidden_state(s, cell, cell_tanh, tmps) ==
  After(s, forward_output(
    matrix_create(
      FreeMatrices(
        Store(s, s.mem[cell].hidden_state,
              [i \in 1..s.mem[cell].hidden_size |->
                 <<FMul(Get(s, s.mem[cell].output_gate, i, 1), Get(s, cell_tanh, i, 1))>>]),
        tmps),
      s.mem[cell].hidden_size, 1),
    cell))

\* lines 170-172: cell_tanh is the result of its matrix_create; with a null
\* cell_tanh line 175 dereferences a null pointer
forward_cell_tanh(cell_tanh, cell, tmps) ==
  IF cell_tanh.p = NULL /\ cell_tanh.s.mem[cell].hidden_size > 0
  THEN [s |-> Flag(cell_tanh.s, "null dereference"), p |-> NULL]
  ELSE forward_hidden_state(
         apply_tanh(matrix_copy(cell_tanh.s, cell_tanh.p,
                                cell_tanh.s.mem[cell].cell_state), cell_tanh.p),
         cell, cell_tanh.p, Append(tmps, cell_tanh.p))

\* lines 163-169: the loop over the cell state, then cell_tanh
forward_cell_state(s, cell, forget_cell, input_candidate, tmps) ==
  forward_cell_tanh(
    matrix_create(
      Store(Store(Store(s,
        forget_cell,
        [i \in 1..s.mem[cell].hidden_size |->
           <<FMul(Get(s, s.mem[cell].forget_gate, i, 1),
                  Get(s, s.mem[cell].cell_state, i, 1))>>]),
        input_candidate,
        [i \in 1..s.mem[cell].hidden_size |->
           <<FMul(Get(s, s.mem[cell].input_gate, i, 1),
                  Get(s, s.mem[cell].candidate_gate, i, 1))>>]),
        s.mem[cell].cell_state,
        [i \in 1..s.mem[cell].hidden_size |->
           <<FMul(Get(s, s.mem[cell].forget_gate, i, 1),
                  Get(s, s.mem[cell].cell_state, i, 1))
             + FMul(Get(s, s.mem[cell].input_gate, i, 1),
                    Get(s, s.mem[cell].candidate_gate, i, 1))>>]),
      s.mem[cell].hidden_size, 1),
    cell, tmps)

\* lines 160-161: input_candidate is the result of its matrix_create; with a
\* null forget_cell or input_candidate line 164 / 165 dereferences it
forward_input_candidate(input_candidate, cell, forget_cell, tmps) ==
  IF (forget_cell = NULL \/ input_candidate.p = NULL)
     /\ input_candidate.s.mem[cell].hidden_size > 0
  THEN [s |-> Flag(input_candidate.s, "null dereference"), p |-> NULL]
  ELSE forward_cell_state(input_candidate.s, cell, forget_cell, input_candidate.p,
                          tmps \o <<forget_cell, input_candidate.p>>)

\* line 160: forget_cell is the result of its matrix_create
forward_forget_cell(forget_cell, cell, tmps) ==
  After(forget_cell,
    forward_input_candidate(
      matrix_create(forget_cell.s, forget_cell.s.mem[cell].hidden_size, 1),
      cell, forget_cell.p, tmps))

\* lines 155-160: g is the result of the four gates
forward_state(g, cell) ==
  After(g, forward_forget_cell(matrix_create(g.s, g.s.mem[cell].hidden_size, 1),
                               cell, g.tmps))

lstm_cell_forward(s, cell, input) ==
  IF cell = NULL \/ input = NULL THEN [s |-> s, p |-> NULL]
  ELSE forward_state(forward_gates(s, cell, input, 1, <<>>), cell)

----------------------------------------------------------------------------
(* LSTM network: src/weather-lstm/src/lstm.c 187-270 *)

DefaultLearningRate == Scale \div 1000      \* 0.001 (line 212)
DefaultSequenceLength == 10                 \* line 213

\* lines 202-220: b_output is the result of its matrix_create
network_create_b_output(b_output, network, cell, W_output, sizes) ==
  IF W_output = NULL \/ b_output.p = NULL
  THEN [s |-> Free(matrix_free(matrix_free(lstm_cell_free(b_output.s, cell), W_output),
                               b_output.p),
                   network),
        p |-> NULL]
  ELSE [s |-> matrix_zero(
                initialize_weights(
                  [b_output.s EXCEPT !.mem[network] =
                     [@ EXCEPT !.lstm_layer = cell,
                               !.W_output = W_output,
                               !.b_output = b_output.p,
                               !.input_size = sizes[1],
                               !.hidden_size = sizes[2],
                               !.output_size = sizes[3],
                               !.learning_rate = DefaultLearningRate,
                               !.sequence_length = DefaultSequenceLength,
                               !.norm_params = NULL]],
                  W_output, Scale),
                b_output.p),
        p |-> network]

\* line 200: W_output is the result of its matrix_create
network_create_W_output(W_output, network, cell, sizes) ==
  After(W_output,
    network_create_b_output(matrix_create(W_output.s, sizes[3], 1),
                            network, cell, W_output.p, sizes))

\* lines 193-199: cell is the result of lstm_cell_create
network_create_lstm_layer(cell, network, sizes) ==
  IF cell.p = NULL THEN [s |-> Free(cell.s, network), p |-> NULL]
  ELSE network_create_W_output(matrix_create(cell.s, sizes[3], sizes[2]),
                               network, cell.p, sizes)

\* lines 190-193: r is the result of malloc(sizeof(LSTMNetwork))
network_create_network(r, sizes) ==
  IF r.p = NULL THEN [s |-> r.s, p |-> NULL]
  ELSE network_create_lstm_layer(lstm_cell_create(r.s, sizes[1], sizes[2]), r.p, sizes)

lstm_network_create(s, input_size, hidden_size, output_size) ==
  network_create_network(
    Malloc(s, 1, [kind |-> "LSTMNetwork", lstm_layer |-> GARBAGE,
                  W_output |-> GARBAGE, b_output |-> GARBAGE,
                  input_size |-> GARBAGE, hidden_size |-> GARBAGE,
                  output_size |-> GARBAGE, learning_rate |-> GARBAGE,
                  sequence_length |-> GARBAGE, norm_params |-> GARBAGE]),
    <<input_size, hidden_size, output_size>>)

\* lstm_network_free of a network that does not own its normalization parameters
lstm_network_free_keeps_params(s, network) ==
  IF network = NULL THEN s
  ELSE Free(matrix_free(matrix_free(lstm_cell_free(s, s.mem[network].lstm_layer),
                                    s.mem[network].W_output),
                        s.mem[network].b_output),
            network)

lstm_network_free(s, network) ==
  IF network = NULL THEN s
  ELSE Free(Free(matrix_free(matrix_free(lstm_cell_free(s, s.mem[network].lstm_layer),
                                         s.mem[network].W_output),
                             s.mem[network].b_output),
                 s.mem[network].norm_params),
            network)

\* lstm_network_reset of a network that keeps its states
lstm_network_reset_skip(s, network) == s

lstm_network_reset(s, network) ==
  IF network = NULL THEN s ELSE lstm_cell_reset_state(s, s.mem[network].lstm_layer)

\* lines 253-258: the loop from timestep t (1-based) on; hidden_output is the
\* result of the forward pass of timestep t - 1 (null before the first)
RECURSIVE predict_loop(_, _, _, _, _)
predict_loop(hidden_output, network, sequence, t, seq_length) ==
  IF t > seq_length THEN hidden_output
  ELSE After(hidden_output,
         predict_loop(
           lstm_cell_forward(matrix_free(hidden_output.s, hidden_output.p),
                             hidden_output.s.mem[network].lstm_layer,
                             hidden_output.s.mem[sequence].ptrs[t]),
           network, sequence, t + 1, seq_length))

\* lines 265-269: output is the result of matrix_add
predict_output(output, hidden_output, output_temp) ==
  After(output,
    [s |-> matrix_free(matrix_free(output.s, hidden_output), output_temp),
     p |-> output.p])

\* line 263: output_temp is the result of matrix_multiply
predict_output_temp(output_temp, network, hidden_output) ==
  After(output_temp,
    predict_output(matrix_add(output_temp.s, output_temp.p,
                              output_temp.s.mem[network].b_output),
                   hidden_output, output_temp.p))

\* lines 260-263: hidden_output is the result of the loop
predict_hidden_output(hidden_output, network) ==
  IF hidden_output.p = NULL THEN [s |-> hidden_output.s, p |-> NULL]
  ELSE predict_output_temp(
         matrix_multiply(hidden_output.s, hidden_output.s.mem[network].W_output,
                         hidden_output.p),
         network, hidden_output.p)

\* sequence is the address of an array of Matrix*
lstm_network_predict(s, network, sequence, seq_length) ==
  IF network = NULL \/ sequence = NULL THEN [s |-> s, p |-> NULL]
  ELSE predict_hidden_output(
         predict_loop([s |-> lstm_network_reset(s, network), p |-> NULL],
                      network, sequence, 1, seq_length),
         network)
----------------------------------------------------------------------------
(* Weather dataset: src/weather-lstm/src/weather_data.c *)

\* a WeatherPoint is the sequence of its six fields, in declaration order:
\* temperature, pressure, humidity, wind_speed, wind_direction, precipitation
UNINIT == <<>>      \* a WeatherPoint slot that was never written

\* lines 8-16: data is the result of malloc(initial_capacity * sizeof(WeatherPoint))
dataset_create_data(data, dataset, initial_capacity) ==
  IF data.p = NULL THEN [s |-> Free(data.s, dataset), p |-> NULL]
  ELSE [s |-> [data.s EXCEPT !.mem[dataset] =
                 [@ EXCEPT !.data = data.p, !.size = 0, !.capacity = initial_capacity]],
        p |-> dataset]

\* lines 5-8: r is the result of malloc(sizeof(WeatherDataset))
dataset_create_dataset(r, initial_capacity) ==
  IF r.p = NULL THEN [s |-> r.s, p |-> NULL]
  ELSE dataset_create_data(
         Malloc(r.s, initial_capacity,
                [kind |-> "points", pts |-> Array(initial_capacity, UNINIT)]),
         r.p, initial_capacity)

weather_dataset_create(s, initial_capacity) ==
  dataset_create_dataset(
    Malloc(s, 1, [kind |-> "WeatherDataset", data |-> GARBAGE,
                  size |-> GARBAGE, capacity |-> GARBAGE]),
    initial_capacity)

weather_dataset_free(s, ds) ==
  IF ds = NULL THEN s ELSE Free(Free(s, s.mem[ds].data), ds)

\* realloc(p, n) of an array of WeatherPoint.  It fails like malloc; with
\* n = 0 it frees p and returns NULL or returns an empty block, as the C
\* library chooses.  A successful call keeps the first min(old, n) points.
Realloc(s, p, n) ==
  IF s.oom = 0 \/ n < 0 THEN [s |-> s, p |-> NULL]
  ELSE IF n = 0 /\ s.malloc0null THEN [s |-> Free(s, p), p |-> NULL]
  ELSE [s |-> [s EXCEPT !.mem[p].pts = SubSeq(@ \o Array(n, UNINIT), 1, n),
                        !.oom = IF @ > 0 THEN @ - 1 ELSE @],
        p |-> p]

\* line 43: dataset->data[dataset->size++] = *point
dataset_add_point(s, ds, point) ==
  IF s.mem[ds].size + 1 > Len(s.mem[s.mem[ds].data].pts)
  THEN [s |-> Flag([s EXCEPT !.mem[ds].size = @ + 1], "out of bounds write"), v |-> 0]
  ELSE [s |-> [s EXCEPT !.mem[s.mem[ds].data].pts[s.mem[ds].size + 1] = point,
                        !.mem[ds].size = @ + 1],
        v |-> 0]

\* lines 34-41: new_data is the result of realloc
dataset_add_new_data(new_data, ds, point) ==
  IF new_data.p = NULL THEN [s |-> new_data.s, v |-> -1]
  ELSE dataset_add_point([new_data.s EXCEPT !.mem[ds].data = new_data.p,
                                            !.mem[ds].capacity = @ * 2],
                         ds, point)

weather_dataset_add(s, ds, point) ==
  IF ds = NULL THEN [s |-> s, v |-> -1]
  ELSE IF s.mem[ds].size >= s.mem[ds].capacity
  THEN dataset_add_new_data(Realloc(s, s.mem[ds].data, s.mem[ds].capacity * 2), ds, point)
  ELSE dataset_add_point(s, ds, point)

\* `point` is the WeatherPoint the argument points to
weather_point_to_matrix(s, point) ==
  Filled(matrix_create(s, NumFeatures, 1), [i \in 1..NumFeatures |-> <<point[i]>>])

\* dataset->data[i] (i is 1-based)
PointAt(s, ds, i) == s.mem[s.mem[ds].data].pts[i]

----------------------------------------------------------------------------
(* Training data: src/weather-lstm/src/lstm.c 272-338 *)

\* lines 312-314: inputs[i][t] for t = 1..sequence_length; m is the result of
\* weather_point_to_matrix for step t
RECURSIVE create_window(_, _, _, _, _, _)
RECURSIVE create_window_step(_, _, _, _, _, _)
create_window_step(m, dataset, row, i, t, sequence_length) ==
  After(m, create_window([m.s EXCEPT !.mem[row].ptrs[t] = m.p],
                         dataset, row, i, t + 1, sequence_length))

create_window(s, dataset, row, i, t, sequence_length) ==
  IF t > sequence_length THEN s
  ELSE create_window_step(weather_point_to_matrix(s, PointAt(s, dataset, i + t - 1)),
                          dataset, row, i, t, sequence_length)

\* lines 299-304: the clean-up of sequences j..i-1 (1-based) when inputs[i] fails
RECURSIVE free_windows(_, _, _, _)
free_windows(s, inputs, j, i) ==
  IF j >= i THEN s
  ELSE After(s, free_windows(
                  Free(FreeMatrices(s, s.mem[s.mem[inputs].ptrs[j]].ptrs),
                       s.mem[inputs].ptrs[j]),
                  inputs, j + 1, i))

\* lines 295-318: sequences i..num_sequences (i is 1-based); row is the result
\* of malloc for inputs[i], target the result of weather_point_to_matrix
RECURSIVE create_sequences(_, _, _, _, _)
RECURSIVE create_sequences_row(_, _, _, _, _)
RECURSIVE create_sequences_target(_, _, _, _, _)
create_sequences_target(target, dataset, data, i, sequence_length) ==
  After(target,
    create_sequences([target.s EXCEPT !.mem[target.s.mem[data].targets].ptrs[i] = target.p],
                     dataset, data, i + 1, sequence_length))

\* create_sequences_window of a builder whose target is the last point of the
\* window
create_sequences_window_last(s, dataset, data, i, sequence_length) ==
  After(s, create_sequences_target(
             weather_point_to_matrix(s, PointAt(s, dataset, i + sequence_length - 1)),
             dataset, data, i, sequence_length))

create_sequences_window(s, dataset, data, i, sequence_length) ==
  After(s, create_sequences_target(
             weather_point_to_matrix(s, PointAt(s, dataset, i + sequence_length)),
             dataset, data, i, sequence_length))

create_sequences_row(row, dataset, data, i, sequence_length) ==
  IF row.p = NULL
  THEN [s |-> Free(Free(Free(free_windows(row.s, row.s.mem[data].inputs, 1, i),
                             row.s.mem[data].inputs),
                        row.s.mem[data].targets),
                   data),
        p |-> NULL]
  ELSE create_sequences_window(
         create_window([row.s EXCEPT !.mem[row.s.mem[data].inputs].ptrs[i] = row.p],
                       dataset, row.p, i, 1, sequence_length),
         dataset, data, i, sequence_length)

create_sequences(s, dataset, data, i, sequence_length) ==
  IF i > s.mem[data].num_sequences THEN [s |-> s, p |-> data]
  ELSE create_sequences_row(
         Malloc(s, sequence_length,
                [kind |-> "ptrs", ptrs |-> Array(sequence_length, GARBAGE)]),
         dataset, data, i, sequence_length)

\* lines 286-293: targets is the result of its malloc
create_training_data_targets(targets, dataset, data, inputs, sequence_length) ==
  IF inputs = NULL \/ targets.p = NULL
  THEN [s |-> Free(Free(Free(targets.s, inputs), targets.p), data), p |-> NULL]
  ELSE create_sequences([targets.s EXCEPT !.mem[data].inputs = inputs,
                                          !.mem[data].targets = targets.p],
                        dataset, data, 1, sequence_length)

\* line 285: inputs is the result of its malloc
create_training_data_inputs(inputs, dataset, data, sequence_length) ==
  After(inputs,
    create_training_data_targets(
      Malloc(inputs.s, inputs.s.mem[data].num_sequences,
             [kind |-> "ptrs", ptrs |-> Array(inputs.s.mem[data].num_sequences, GARBAGE)]),
      dataset, data, inputs.p, sequence_length))

\* lines 279-285: r is the result of malloc(sizeof(TrainingData))
create_training_data_data(r, dataset, sequence_length) ==
  IF r.p = NULL THEN [s |-> r.s, p |-> NULL]
  ELSE create_training_data_inputs(
         Malloc(r.s, r.s.mem[r.p].num_sequences,
                [kind |-> "ptrs", ptrs |-> Array(r.s.mem[r.p].num_sequences, GARBAGE)]),
         dataset, r.p, sequence_length)

\* create_training_data of a builder that accepts a window as long as the
\* dataset
create_training_data_lt(s, dataset, sequence_length) ==
  IF dataset = NULL \/ sequence_length <= 0 \/ s.mem[dataset].size < sequence_length
  THEN [s |-> s, p |-> NULL]
  ELSE create_training_data_data(
         Malloc(s, 1, [kind |-> "TrainingData", inputs |-> GARBAGE, targets |-> GARBAGE,
                       num_sequences |-> s.mem[dataset].size - sequence_length,
                       sequence_length |-> sequence_length]),
         dataset, sequence_length)

create_training_data(s, dataset, sequence_length) ==
  IF dataset = NULL \/ sequence_length <= 0 \/ s.mem[dataset].size <= sequence_length
  THEN [s |-> s, p |-> NULL]
  ELSE create_training_data_data(
         Malloc(s, 1, [kind |-> "TrainingData", inputs |-> GARBAGE, targets |-> GARBAGE,
                       num_sequences |-> s.mem[dataset].size - sequence_length,
                       sequence_length |-> sequence_length]),
         dataset, sequence_length)

\* free_sequences of a release that forgets the targets
RECURSIVE free_sequences_inputs(_, _, _)
free_sequences_inputs(s, data, i) ==
  IF i > s.mem[data].num_sequences THEN s
  ELSE After(s, free_sequences_inputs(
         Free(FreeMatrices(s, SubSeq(s.mem[s.mem[s.mem[data].inputs].ptrs[i]].ptrs,
                                     1, s.mem[data].sequence_length)),
              s.mem[s.mem[data].inputs].ptrs[i]),
         data, i + 1))

\* lines 327-333, sequences i..num_sequences
RECURSIVE free_sequences(_, _, _)
free_sequences(s, data, i) ==
  IF i > s.mem[data].num_sequences THEN s
  ELSE After(s, free_sequences(
         matrix_free(
           Free(FreeMatrices(s, SubSeq(s.mem[s.mem[s.mem[data].inputs].ptrs[i]].ptrs,
                                       1, s.mem[data].sequence_length)),
                s.mem[s.mem[data].inputs].ptrs[i]),
           s.mem[s.mem[data].targets].ptrs[i]),
         data, i + 1))

free_training_data(s, data) ==
  IF data = NULL THEN s
  ELSE Free(Free(Free(free_sequences(s, data, 1), s.mem[data].inputs),
                 s.mem[data].targets),
            data)
----------------------------------------------------------------------------
(* Trainer: src/weather-lstm/src/lstm.c 340-402 *)

\* lines 386-392: new_weights is the result of matrix_add
train_new_weights(new_weights, network, prediction, error, hidden_transpose, weight_update) ==
  After(new_weights,
    FreeMatrices(matrix_copy(new_weights.s, new_weights.s.mem[network].W_output,
                             new_weights.p),
                 <<prediction, error, hidden_transpose, weight_update, new_weights.p>>))

\* line 385: weight_update is the result of matrix_multiply
train_weight_update(weight_update, network, prediction, error, hidden_transpose) ==
  After(weight_update,
    train_new_weights(matrix_add(weight_update.s, weight_update.s.mem[network].W_output,
                                 weight_update.p),
                      network, prediction, error, hidden_transpose, weight_update.p))

\* line 384: hidden_transpose is the result of matrix_transpose
train_hidden_transpose(hidden_transpose, network, prediction, error) ==
  After(hidden_transpose,
    train_weight_update(matrix_multiply(hidden_transpose.s, error, hidden_transpose.p),
                        network, prediction, error, hidden_transpose.p))

\* train_error of a trainer that also moves the error into the output bias
train_error_bias(error, network, prediction) ==
  train_hidden_transpose(
    matrix_transpose(
      matrix_copy(matrix_scale(error.s, error.p, error.s.mem[network].learning_rate),
                  error.s.mem[network].b_output, error.p),
      error.s.mem[error.s.mem[network].lstm_layer].hidden_state),
    network, prediction, error.p)

\* lines 380-383: error is the result of matrix_subtract
train_error(error, network, prediction) ==
  After(error,
    train_hidden_transpose(
      matrix_transpose(matrix_scale(error.s, error.p, error.s.mem[network].learning_rate),
                       error.s.mem[error.s.mem[network].lstm_layer].hidden_state),
      network, prediction, error.p))

\* lines 372-380: prediction is the result of lstm_network_predict
train_prediction(prediction, network, data, seq) ==
  IF prediction.p = NULL THEN prediction.s
  ELSE train_error(matrix_subtract(prediction.s,
                                   prediction.s.mem[prediction.s.mem[data].targets].ptrs[seq],
                                   prediction.p),
                   network, prediction.p)

\* lines 370-392: one training pair (seq is 1-based)
train_pair(s, network, data, seq) ==
  train_prediction(lstm_network_predict(s, network, s.mem[s.mem[data].inputs].ptrs[seq],
                                        s.mem[data].sequence_length),
                   network, data, seq)

\* train_epoch of a trainer that takes the pairs from the last to the first
RECURSIVE train_epoch_backwards(_, _, _, _)
train_epoch_backwards(s, network, data, seq) ==
  After(s, IF seq > s.mem[data].num_sequences THEN s
           ELSE train_pair(train_epoch_backwards(s, network, data, seq + 1), network,
                           data, seq))

\* lines 369-393: the pairs seq..num_sequences of one epoch
RECURSIVE train_epoch(_, _, _, _)
train_epoch(s, network, data, seq) ==
  After(s, IF seq > s.mem[data].num_sequences THEN s
           ELSE train_epoch(train_pair(s, network, data, seq), network, data, seq + 1))

\* lines 366-399: the epochs epoch..epochs-1
RECURSIVE train_epochs(_, _, _, _, _)
train_epochs(s, network, data, epoch, epochs) ==
  IF epoch >= epochs THEN s
  ELSE train_epochs(train_epoch(s, network, data, 1), network, data, epoch + 1, epochs)

lstm_train(s, network, data, epochs) ==
  IF network = NULL \/ data = NULL THEN s
  ELSE train_epochs(s, network, data, 0, epochs)

\* calculate_loss that adds up the differences instead of their squares
calculate_loss_signed(s, predicted, target) ==
  IF predicted = NULL \/ target = NULL \/ Rows(s, predicted) # Rows(s, target)
     \/ Cols(s, predicted) # Cols(s, target)
  THEN -Scale
  ELSE SeqSum([i \in 1..Rows(s, predicted) |->
                 SeqSum([j \in 1..Cols(s, predicted) |->
                           Get(s, predicted, i, j) - Get(s, target, i, j)])])
       \div (Rows(s, predicted) * Cols(s, predicted))

\* lines 341-357; the sentinel -1.0 is -Scale.  The quotient 0.0 / 0 of two
\* matrices without entries (NaN) has no value here.
calculate_loss(s, predicted, target) ==
  IF predicted = NULL \/ target = NULL \/ Rows(s, predicted) # Rows(s, target)
     \/ Cols(s, predicted) # Cols(s, target)
  THEN -Scale
  ELSE SeqSum([i \in 1..Rows(s, predicted) |->
                 SeqSum([j \in 1..Cols(s, predicted) |->
                           FMul(Get(s, predicted, i, j) - Get(s, target, i, j),
                                Get(s, predicted, i, j) - Get(s, target, i, j))])])
       \div (Rows(s, predicted) * Cols(s, predicted))
----------------------------------------------------------------------------
(* Normalization parameters: src/weather-lstm/src/weather_data.c 161-201 *)

\* the values of field k (1-based) over the points of the dataset
FieldValues(s, dataset, k) == {PointAt(s, dataset, i)[k] : i \in 1..s.mem[dataset].size}

\* a NormalizationParams block holds the twelve doubles in declaration order:
\* temp_min, temp_max, pressure_min, pressure_max, ... precip_min, precip_max
calculate_normalization_params(s, dataset) ==
  IF dataset = NULL \/ s.mem[dataset].size = 0 THEN [s |-> s, p |-> NULL]
  ELSE Malloc(s, 1, [kind |-> "NormalizationParams",
                     v |-> Elems([k \in 1..(2 * NumFeatures) |->
                                    IF k % 2 = 1
                                    THEN Min(FieldValues(s, dataset, (k + 1) \div 2))
                                    ELSE Max(FieldValues(s, dataset, k \div 2))],
                                 2 * NumFeatures)])

----------------------------------------------------------------------------
(* Model files: src/weather-lstm/src/lstm.c 404-503 *)

\* A file is a sequence of 4-byte words.  An int is one word; a double is
\* two words, the high and the low part of its representation.
WordBase == 2 * Scale
IntWords(v) == <<v>>
\* DoubleWords of a writer that drops the low word
DoubleWords_high(v) == <<v \div WordBase, 0>>

DoubleWords(v) == <<v \div WordBase, v % WordBase>>
WordsInt(w) == w[1]
WordsDouble(w) == w[1] * WordBase + w[2]

RECURSIVE Flatten(_)
Flatten(q) == IF q = <<>> THEN <<>> ELSE Head(q) \o Flatten(Tail(q))

Files == {"a.bin", "nodir/b.bin"}
Writable(f) == f # "nodir/b.bin"        \* fopen(f, "wb") fails in a missing directory
DataFiles == {"data.csv"}
NoFile == [exists |-> FALSE, data |-> <<>>]

\* ModelWords of a writer that puts sequence_length before learning_rate
ModelWords_reordered(s, network) ==
  IntWords(s.mem[network].input_size)
  \o IntWords(s.mem[network].hidden_size)
  \o IntWords(s.mem[network].output_size)
  \o IntWords(s.mem[network].sequence_length)
  \o DoubleWords(s.mem[network].learning_rate)
  \o Flatten([i \in 1..s.mem[network].output_size |->
       Flatten([j \in 1..s.mem[network].hidden_size |->
                  DoubleWords(Get(s, s.mem[network].W_output, i, j))])])
  \o Flatten([i \in 1..s.mem[network].output_size |->
                DoubleWords(Get(s, s.mem[network].b_output, i, 1))])
  \o IntWords(IF s.mem[network].norm_params # NULL THEN 1 ELSE 0)
  \o (IF s.mem[network].norm_params # NULL
      THEN Flatten([k \in 1..(2 * NumFeatures) |->
                      DoubleWords(s.mem[s.mem[network].norm_params].v[k])])
      ELSE <<>>)

\* lines 412-433: the words the fwrite calls append, in order
ModelWords(s, network) ==
  IntWords(s.mem[network].input_size)
  \o IntWords(s.mem[network].hidden_size)
  \o IntWords(s.mem[network].output_size)
  \o DoubleWords(s.mem[network].learning_rate)
  \o IntWords(s.mem[network].sequence_length)
  \o Flatten([i \in 1..s.mem[network].output_size |->
       Flatten([j \in 1..s.mem[network].hidden_size |->
                  DoubleWords(Get(s, s.mem[network].W_output, i, j))])])
  \o Flatten([i \in 1..s.mem[network].output_size |->
                DoubleWords(Get(s, s.mem[network].b_output, i, 1))])
  \o IntWords(IF s.mem[network].norm_params # NULL THEN 1 ELSE 0)
  \o (IF s.mem[network].norm_params # NULL
      THEN Flatten([k \in 1..(2 * NumFeatures) |->
                      DoubleWords(s.mem[s.mem[network].norm_params].v[k])])
      ELSE <<>>)

\* save_lstm_model of a writer that also appends the hidden state of the cell
save_lstm_model_with_cell(s, network, filename) ==
  IF network = NULL THEN [s |-> s, v |-> -1]
  ELSE IF ~Writable(filename) THEN [s |-> s, v |-> -1]
  ELSE [s |-> [s EXCEPT !.fs[filename] =
                 [exists |-> TRUE,
                  data |-> ModelWords(s, network)
                           \o DoubleWords(Get(s, s.mem[s.mem[network].lstm_layer].hidden_state,
                                              1, 1))]],
        v |-> 0]

save_lstm_model(s, network, filename) ==
  IF network = NULL THEN [s |-> s, v |-> -1]
  ELSE IF ~Writable(filename) THEN [s |-> s, v |-> -1]
  ELSE [s |-> [s EXCEPT !.fs[filename] =
                 [exists |-> TRUE, data |-> ModelWords(s, network)]],
        v |-> 0]

\* fread(buf, size, count, file) at word position pos of the contents d:
\* the number n of complete items read, the items, and the new position
FReadCount(d, pos, size, count) == Min({(Len(d) - pos) \div size, count})

FRead(d, pos, size, count) ==
  [n |-> FReadCount(d, pos, size, count),
   items |-> Elems([k \in 1..FReadCount(d, pos, size, count) |->
                      SubSeq(d, pos + (k - 1) * size + 1, pos + k * size)],
                   FReadCount(d, pos, size, count)),
   pos |-> IF Len(d) - pos < count * size THEN Len(d) ELSE pos + count * size]

\* lines 450-454: the five header reads, stopping at the first short one;
\* r is the result of the read of the field of size Head(sizes)
RECURSIVE read_header(_, _, _, _)
RECURSIVE read_header_field(_, _, _, _)
read_header_field(r, d, sizes, acc) ==
  IF r.n # 1 THEN [ok |-> FALSE, items |-> acc, pos |-> r.pos]
  ELSE read_header(d, r.pos, Tail(sizes), acc \o r.items)

read_header(d, pos, sizes, acc) ==
  IF sizes = <<>> THEN [ok |-> TRUE, items |-> acc, pos |-> pos]
  ELSE read_header_field(FRead(d, pos, Head(sizes), 1), d, sizes, acc)

\* lines 469-476: rows i..output_size of W_output; r is the result of the
\* read into row i, which stores the r.n doubles it got
RECURSIVE read_weights(_, _, _, _, _)
RECURSIVE read_weights_row(_, _, _, _, _)
read_weights_row(r, s, network, d, i) ==
  IF r.n # s.mem[network].hidden_size
  THEN [ok |-> FALSE, pos |-> r.pos,
        s |-> [s EXCEPT !.mem[RowAddr(s, s.mem[network].W_output, i)].vals =
                 Elems([j \in 1..Len(@) |->
                          IF j <= r.n THEN WordsDouble(r.items[j]) ELSE @[j]], Len(@))]]
  ELSE read_weights(
         [s EXCEPT !.mem[RowAddr(s, s.mem[network].W_output, i)].vals =
            Elems([j \in 1..Len(@) |-> WordsDouble(r.items[j])], Len(@))],
         network, d, r.pos, i + 1)

read_weights(s, network, d, pos, i) ==
  IF i > s.mem[network].output_size THEN [ok |-> TRUE, s |-> s, pos |-> pos]
  ELSE read_weights_row(FRead(d, pos, 2, s.mem[network].hidden_size), s, network, d, i)

\* lines 478-485: entries i..output_size of b_output
RECURSIVE read_bias(_, _, _, _, _)
RECURSIVE read_bias_entry(_, _, _, _, _)
read_bias_entry(r, s, network, d, i) ==
  IF r.n # 1 THEN [ok |-> FALSE, s |-> s, pos |-> r.pos]
  ELSE read_bias([s EXCEPT !.mem[RowAddr(s, s.mem[network].b_output, i)].vals[1] =
                             WordsDouble(r.items[1])],
                 network, d, r.pos, i + 1)

read_bias(s, network, d, pos, i) ==
  IF i > s.mem[network].output_size THEN [ok |-> TRUE, s |-> s, pos |-> pos]
  ELSE read_bias_entry(FRead(d, pos, 2, 1), s, network, d, i)

\* lines 490-498: np is the result of malloc(sizeof(NormalizationParams)), r
\* of the read into it; the malloc is not checked
read_norm_params(np, r, network) ==
  IF np.p = NULL
  THEN [ok |-> FALSE, s |-> Flag([np.s EXCEPT !.mem[network].norm_params = NULL],
                                 "null dereference")]
  ELSE IF r.n # 1
  THEN [ok |-> FALSE, s |-> [Free(np.s, np.p) EXCEPT !.mem[network].norm_params = NULL]]
  ELSE [ok |-> TRUE,
        s |-> [np.s EXCEPT !.mem[network].norm_params = np.p,
                           !.mem[np.p].v =
                              Elems([k \in 1..(2 * NumFeatures) |->
                                       WordsDouble(SubSeq(r.items[1], 2 * k - 1, 2 * k))],
                                    2 * NumFeatures)]]

\* lines 487-499: flag is the result of the read of has_norm
read_norm(flag, s, network, d) ==
  IF ~(flag.n = 1 /\ WordsInt(flag.items[1]) # 0) THEN [ok |-> TRUE, s |-> s]
  ELSE read_norm_params(Malloc(s, 1, [kind |-> "NormalizationParams",
                                      v |-> Array(2 * NumFeatures, GARBAGE)]),
                        FRead(d, flag.pos, 4 * NumFeatures, 1), network)

fopen(s) == [s EXCEPT !.nopen = @ + 1]
fclose(s) == [s EXCEPT !.nopen = @ - 1]

\* lines 487-502: np is the result of reading the normalization parameters
load_norm(np, network) ==
  IF ~np.ok THEN [s |-> fclose(lstm_network_free(np.s, network)), p |-> NULL]
  ELSE [s |-> fclose(np.s), p |-> network]

\* lines 478-487: b is the result of reading b_output
load_bias(b, network, d) ==
  IF ~b.ok THEN [s |-> fclose(lstm_network_free(b.s, network)), p |-> NULL]
  ELSE load_norm(read_norm(FRead(d, b.pos, 1, 1), b.s, network, d), network)

\* lines 469-478: W is the result of reading W_output
load_weights(W, network, d) ==
  IF ~W.ok THEN [s |-> fclose(lstm_network_free(W.s, network)), p |-> NULL]
  ELSE load_bias(read_bias(W.s, network, d, W.pos, 1), network, d)

\* lines 460-469: network is the result of lstm_network_create, h the header
load_network(network, h, d) ==
  IF network.p = NULL THEN [s |-> fclose(network.s), p |-> NULL]
  ELSE load_weights(
         read_weights([network.s EXCEPT
                         !.mem[network.p].learning_rate = WordsDouble(h.items[4]),
                         !.mem[network.p].sequence_length = WordsInt(h.items[5])],
                      network.p, d, h.pos, 1),
         network.p, d)

\* lines 449-460: h is the result of reading the header from the open file
load_header(h, s, d) ==
  IF ~h.ok THEN [s |-> fclose(s), p |-> NULL]
  ELSE load_network(lstm_network_create(s, WordsInt(h.items[1]), WordsInt(h.items[2]),
                                        WordsInt(h.items[3])),
                    h, d)

load_lstm_model(s, filename) ==
  IF ~s.fs[filename].exists THEN [s |-> s, p |-> NULL]
  ELSE load_header(read_header(s.fs[filename].data, 0, <<1, 1, 1, 2, 1>>, <<>>),
                   fopen(s), s.fs[filename].data)
----------------------------------------------------------------------------
(* Callers: what the tests and the programs do around the library calls *)

Machine0(seed) ==
  [mem |-> <<>>, oom |-> -1, malloc0null |-> FALSE, rng |-> seed, ub |-> {},
   fs |-> [f \in Files \cup DataFiles |-> NoFile], nopen |-> 0]

\* matrix_create + matrix_set of every entry of the value v
MakeMatrix(s, v) == Filled(matrix_create(s, Len(v), Len(v[1])), v)

\* one matrix per timestep t.. of the array arr; m is the matrix of timestep t
RECURSIVE MakeMatrices(_, _, _, _)
RECURSIVE MakeMatrices_m(_, _, _, _)
MakeMatrices_m(m, arr, vs, t) ==
  After(m, MakeMatrices([m.s EXCEPT !.mem[arr].ptrs[t] = m.p], arr, vs, t + 1))

MakeMatrices(s, arr, vs, t) ==
  IF t > Len(vs) THEN [s |-> s, p |-> arr]
  ELSE MakeMatrices_m(MakeMatrix(s, vs[t]), arr, vs, t)

\* malloc(seq_length * sizeof(Matrix*)) and one matrix per timestep
MakeSequence_a(a, vs) == After(a, MakeMatrices(a.s, a.p, vs, 1))

MakeSequence(s, vs) ==
  MakeSequence_a(Malloc(s, Len(vs), [kind |-> "ptrs", ptrs |-> Array(Len(vs), GARBAGE)]),
                 vs)

FreeSequence(s, a) == Free(FreeMatrices(s, s.mem[a].ptrs), a)

\* the weather points the callers use: point k of a synthetic series
TestPoint(k) ==
  Elems([i \in 1..NumFeatures |-> ((k * i + i \div 2) % 5) * (Scale \div 2) - Scale],
        NumFeatures)

\* weather_dataset_add of the points k..n; r is the result of adding point k
RECURSIVE AddPoints(_, _, _, _)
RECURSIVE AddPoints_r(_, _, _, _)
AddPoints_r(r, ds, k, n) == After(r, AddPoints(r.s, ds, k + 1, n))

AddPoints(s, ds, k, n) ==
  IF k > n THEN [s |-> s, p |-> ds]
  ELSE AddPoints_r(weather_dataset_add(s, ds, TestPoint(k)), ds, k, n)

\* weather_dataset_create(capacity) and n calls of weather_dataset_add
MakeDataset_ds(ds, n) == IF ds.p = NULL THEN ds ELSE AddPoints(ds.s, ds.p, 1, n)

MakeDataset(s, capacity, n) == MakeDataset_ds(weather_dataset_create(s, capacity), n)

\* column vectors a caller may pass as a timestep
Column(n, a, b) == Elems([i \in 1..n |-> <<IF i % 2 = 1 THEN a ELSE b>>], n)
ValidInputs(n) == {Column(n, Scale, 0), Column(n, Scale \div 2, Scale)}
BadInputs(n) == {Column(n + 1, Scale, 0), Elems([i \in 1..n |-> <<Scale, Scale>>], n)}
ShapeOk(v, n) == Len(v) = n /\ Len(v[1]) = 1

SeqsOver(S, n) == UNION {[1..k -> S] : k \in 1..n}

----------------------------------------------------------------------------
(* Snapshots: the values a pointer graph holds *)

CellVal(s, cell) ==
  [n \in {CellNames[k] : k \in 1..Len(CellNames)} |-> Val(s, s.mem[cell][n])]

NormVal(s, p) == IF p = NULL THEN <<>> ELSE s.mem[p].v

NetVal(s, net) ==
  [input_size |-> s.mem[net].input_size, hidden_size |-> s.mem[net].hidden_size,
   output_size |-> s.mem[net].output_size, learning_rate |-> s.mem[net].learning_rate,
   sequence_length |-> s.mem[net].sequence_length,
   cell |-> CellVal(s, s.mem[net].lstm_layer),
   W_output |-> Val(s, s.mem[net].W_output), b_output |-> Val(s, s.mem[net].b_output),
   norm |-> NormVal(s, s.mem[net].norm_params)]
----------------------------------------------------------------------------
(* The network specification: a caller holding one network and the training *)
(* data of a dataset, calling the network's operations in any order         *)

Seeds == 0..1
NetDims == {<<NumFeatures, 1, NumFeatures>>, <<NumFeatures, 2, NumFeatures>>}

NoRet == [op |-> "none"]

\* what the caller knows of the last successful save to a file: the words
\* written and the value of the network at that time
NoSave == [ok |-> FALSE, words |-> <<>>, net |-> <<>>]

Inputs == ValidInputs(NumFeatures) \cup BadInputs(NumFeatures)

InitNet ==
  \E seed \in Seeds, dims \in NetDims :
    \E ds \in {MakeDataset(Machine0(seed), MaxPoints, MaxPoints)} :
      \E td \in {create_training_data(ds.s, ds.p, MaxSeqLen)} :
        \E net \in {lstm_network_create(td.s, dims[1], dims[2], dims[3])} :
          /\ mach = net.s
          /\ netp = net.p
          /\ loadedp = NULL
          /\ dsp = ds.p
          /\ tdp = td.p
          /\ ret = NoRet
          /\ hist = [created |-> NetVal(net.s, net.p), saved |-> [f \in Files |-> NoSave]]
          /\ pc = "api"
          /\ steps = 0

Step == steps < MaxSteps /\ steps' = steps + 1

\* lstm_cell_forward on the network's cell; the caller frees the output
CellForward(x) ==
  /\ Step
  /\ \E in \in {MakeMatrix(mach, x)} :
       \E r \in {lstm_cell_forward(in.s, in.s.mem[netp].lstm_layer, in.p)} :
         /\ mach' = matrix_free(matrix_free(r.s, r.p), in.p)
         /\ ret' = [op |-> "forward", input |-> x, null |-> r.p = NULL,
                    val |-> Val(r.s, r.p)]
  /\ UNCHANGED <<netp, loadedp, dsp, tdp, hist, pc>>

\* lstm_network_predict on a sequence the caller builds and frees
Predict(xs) ==
  /\ Step
  /\ \E sq \in {MakeSequence(mach, xs)} :
       \E r \in {lstm_network_predict(sq.s, netp, sq.p, Len(xs))} :
         /\ mach' = FreeSequence(matrix_free(r.s, r.p), sq.p)
         /\ ret' = [op |-> "predict", inputs |-> xs, null |-> r.p = NULL,
                    val |-> Val(r.s, r.p), shape |-> Shape(r.s, r.p),
                    before |-> <<Val(mach, mach.mem[mach.mem[netp].lstm_layer].hidden_state),
                                 Val(mach, mach.mem[mach.mem[netp].lstm_layer].cell_state)>>]
  /\ UNCHANGED <<netp, loadedp, dsp, tdp, hist, pc>>

Reset ==
  /\ Step
  /\ mach' = lstm_network_reset(mach, netp)
  /\ ret' = [op |-> "reset"]
  /\ UNCHANGED <<netp, loadedp, dsp, tdp, hist, pc>>

Train(epochs) ==
  /\ Step
  /\ mach' = lstm_train(mach, netp, tdp, epochs)
  /\ ret' = [op |-> "train", epochs |-> epochs]
  /\ UNCHANGED <<netp, loadedp, dsp, tdp, hist, pc>>

\* network->learning_rate = learning_rate (train program, line 925)
SetLearningRate(lr) ==
  /\ Step
  /\ mach' = [mach EXCEPT !.mem[netp].learning_rate = lr]
  /\ ret' = [op |-> "set_learning_rate", lr |-> lr]
  /\ UNCHANGED <<netp, loadedp, dsp, tdp, hist, pc>>

Save(f) ==
  /\ Step
  /\ \E r \in {save_lstm_model(mach, netp, f)} :
       /\ mach' = r.s
       /\ ret' = [op |-> "save", file |-> f, v |-> r.v]
       /\ hist' = IF r.v # 0 THEN hist
                  ELSE [hist EXCEPT !.saved[f] = [ok |-> TRUE, words |-> r.s.fs[f].data,
                                                  net |-> NetVal(mach, netp)]]
  /\ UNCHANGED <<netp, loadedp, dsp, tdp, pc>>

NextNet ==
  \/ \E x \in Inputs : CellForward(x)
  \/ \E xs \in SeqsOver(Inputs, MaxSeqLen) : Predict(xs)
  \/ Reset
  \/ \E e \in 0..MaxEpochs : Train(e)
  \/ \E lr \in {Scale \div 2} : SetLearningRate(lr)
  \/ \E f \in Files : Save(f)

Spec == InitNet /\ [][NextNet]_vars

UBFree == mach.ub = {}
----------------------------------------------------------------------------
(* Properties of the network specification *)

Cell == mach.mem[netp].lstm_layer

\* C1: after any sequence of lstm_train, lstm_network_predict,
\* lstm_network_reset and save_lstm_model calls (and forward passes) on a
\* network, the eight cell weight matrices, the four cell biases and b_output
\* hold the values they had at creation: only W_output may differ.
C1_OnlyOutputWeightsChange ==
  /\ \A k \in 1..Len(WeightNames) :
       Val(mach, mach.mem[Cell][WeightNames[k]]) = hist.created.cell[WeightNames[k]]
  /\ \A k \in 1..Len(BiasNames) :
       Val(mach, mach.mem[Cell][BiasNames[k]]) = hist.created.cell[BiasNames[k]]
  /\ Val(mach, mach.mem[netp].b_output) = hist.created.b_output

\* a training run has changed W_output
C1_Witness ==
  /\ ret.op = "train"
  /\ Val(mach, mach.mem[netp].W_output) # hist.created.W_output

\* The reference forward pass on values: c is the value of the cell (CellVal),
\* x the input column, h and cs the hidden and the cell state columns
RefDot(W, i, x) == SeqSum([j \in 1..Len(x) |-> FMul(W[i][j], x[j][1])])

RefGate(c, k, x, h, i) ==
  RefDot(c[Gates[k][1]], i, x) + RefDot(c[Gates[k][2]], i, h) + c[Gates[k][3]][i][1]

RefCellState(c, x, h, cs) ==
  [i \in 1..Len(h) |->
     <<FMul(sigmoid(RefGate(c, 1, x, h, i)), cs[i][1])
       + FMul(sigmoid(RefGate(c, 2, x, h, i)), tanh_activation(RefGate(c, 3, x, h, i)))>>]

RefHidden(c, x, h, cs) ==
  [i \in 1..Len(h) |->
     <<FMul(sigmoid(RefGate(c, 4, x, h, i)),
            tanh_activation(RefCellState(c, x, h, cs)[i][1]))>>]

\* the hidden state after the timesteps t.. of xs
RECURSIVE RefRun(_, _, _, _, _)
RefRun(c, xs, t, h, cs) ==
  IF t > Len(xs) THEN h
  ELSE RefRun(c, xs, t + 1, RefHidden(c, xs[t], h, cs), RefCellState(c, xs[t], h, cs))

Zeros(n) == [i \in 1..n |-> <<0>>]

\* W_output * h_n + b_output for the network value n
RefPredict(n, xs) ==
  [i \in 1..n.output_size |->
     <<RefDot(n.W_output, i, RefRun(n.cell, xs, 1, Zeros(n.hidden_size),
                                    Zeros(n.hidden_size)))
       + n.b_output[i][1]>>]

AllShapesOk(xs) == \A t \in 1..Len(xs) : ShapeOk(xs[t], mach.mem[netp].input_size)

\* C2: for a sequence of n >= 1 matrices of shape (input_size, 1),
\* lstm_network_predict returns a non-null matrix of shape (output_size, 1)
\* equal to W_output * h_n + b_output, h_n being the hidden state reached from
\* the zero state by the forward passes in index order, whatever state the
\* cell held before the call.
C2_PredictIsOutputOfLastHidden ==
  [][(ret'.op = "predict" /\ AllShapesOk(ret'.inputs)) =>
       /\ ~ret'.null
       /\ ret'.shape = <<mach.mem[netp].output_size, 1>>
       /\ ret'.val = RefPredict(NetVal(mach, netp), ret'.inputs)]_vars

\* a prediction on a valid sequence, made when the hidden and the cell state
\* were not zero, whose result is not the output bias
C2_Witness ==
  /\ ret.op = "predict" /\ AllShapesOk(ret.inputs) /\ Len(ret.inputs) = MaxSeqLen
  /\ ~ret.null
  /\ \E i \in 1..Len(ret.before[1]) : ret.before[1][i][1] # 0 /\ ret.before[2][i][1] # 0
  /\ \E i \in 1..Len(ret.val) : ret.val[i][1] # Val(mach, mach.mem[netp].b_output)[i][1]

\* C6: lstm_cell_forward with an input whose shape is not (input_size, 1)
\* returns null and leaves hidden_state, cell_state and the four gate matrices
\* as they were.
C6_ForwardRejectsBadShape ==
  [][(ret'.op = "forward" /\ ~ShapeOk(ret'.input, mach.mem[netp].input_size)) =>
       /\ ret'.null
       /\ \A n \in {"hidden_state", "cell_state", "forget_gate", "input_gate",
                    "candidate_gate", "output_gate"} :
            Val(mach', mach'.mem[Cell][n]) = Val(mach, mach.mem[Cell][n])]_vars

\* C7: lstm_network_predict returns null if any timestep matrix, at any
\* position, does not have shape (input_size, 1).
C7_PredictRejectsBadShape ==
  (ret.op = "predict" /\ ~AllShapesOk(ret.inputs)) => ret.null
----------------------------------------------------------------------------
(* The model-file specification: a caller that saves a network to files,   *)
(* loads networks from them and frees what it loaded, while the files may  *)
(* get truncated                                                           *)

MaxFileSteps == 3

FileNetDims == {<<1, 1, 1>>, <<1, 2, 2>>}

\* lines 925-927 of the train program: the caller sets the learning rate, the
\* sequence length and the normalization parameters of the network it created
Configure(np, network, learning_rate, sequence_length) ==
  [s |-> [np.s EXCEPT !.mem[network].learning_rate = learning_rate,
                      !.mem[network].sequence_length = sequence_length,
                      !.mem[network].norm_params = np.p],
   p |-> network]

InitFile ==
  \E seed \in Seeds, dims \in FileNetDims, configured \in BOOLEAN :
    \E ds \in {MakeDataset(Machine0(seed), MaxPoints, MaxPoints)} :
      \E created \in {lstm_network_create(ds.s, dims[1], dims[2], dims[3])} :
        \E net \in {IF configured
                    THEN Configure(calculate_normalization_params(created.s, ds.p),
                                   created.p, Scale \div 2 + 1, MaxSeqLen)
                    ELSE created} :
          /\ mach = net.s
          /\ netp = net.p
          /\ loadedp = NULL
          /\ dsp = ds.p
          /\ tdp = NULL
          /\ ret = NoRet
          /\ hist = [created |-> NetVal(net.s, net.p), saved |-> [f \in Files |-> NoSave]]
          /\ pc = "api"
          /\ steps = 0

FileStep == steps < MaxFileSteps /\ steps' = steps + 1

SaveModel(f) ==
  /\ FileStep
  /\ \E r \in {save_lstm_model(mach, netp, f)} :
       /\ mach' = r.s
       /\ ret' = [op |-> "save", file |-> f, v |-> r.v]
       /\ hist' = IF r.v # 0 THEN hist
                  ELSE [hist EXCEPT !.saved[f] = [ok |-> TRUE, words |-> r.s.fs[f].data,
                                                  net |-> NetVal(mach, netp)]]
  /\ UNCHANGED <<netp, loadedp, dsp, tdp, pc>>

\* the file as the last save wrote it
Intact(s, f) == s.fs[f].exists /\ hist.saved[f].ok /\ s.fs[f].data = hist.saved[f].words

\* the environment cuts a saved file down to its first k words
Truncate(f, k) ==
  /\ FileStep
  /\ Intact(mach, f)
  /\ k < Len(mach.fs[f].data)
  /\ mach' = [mach EXCEPT !.fs[f].data = SubSeq(@, 1, k)]
  /\ ret' = [op |-> "truncate", file |-> f, k |-> k]
  /\ UNCHANGED <<netp, loadedp, dsp, tdp, hist, pc>>

LoadModel(f) ==
  /\ FileStep
  /\ loadedp = NULL
  /\ \E r \in {load_lstm_model(mach, f)} :
       /\ mach' = r.s
       /\ loadedp' = r.p
       /\ ret' = [op |-> "load", file |-> f, null |-> r.p = NULL]
  /\ UNCHANGED <<netp, dsp, tdp, hist, pc>>

FreeLoaded ==
  /\ FileStep
  /\ loadedp # NULL
  /\ mach' = lstm_network_free(mach, loadedp)
  /\ loadedp' = NULL
  /\ ret' = [op |-> "free"]
  /\ UNCHANGED <<netp, dsp, tdp, hist, pc>>

MaxFileWords == 6 + 2 * 2 * 2 + 2 * 2 + 1 + 4 * NumFeatures

NextFile ==
  \/ \E f \in Files : SaveModel(f)
  \/ \E f \in Files, k \in 0..MaxFileWords : Truncate(f, k)
  \/ \E f \in Files : LoadModel(f)
  \/ FreeLoaded

SpecFile == InitFile /\ [][NextFile]_vars
----------------------------------------------------------------------------
(* Properties of the model-file specification *)

\* the fields of a network value that a model file holds
Persisted(n) ==
  [input_size |-> n.input_size, hidden_size |-> n.hidden_size,
   output_size |-> n.output_size, learning_rate |-> n.learning_rate,
   sequence_length |-> n.sequence_length, W_output |-> n.W_output,
   b_output |-> n.b_output, norm |-> n.norm]

\* C4: load_lstm_model on a file that save_lstm_model wrote successfully
\* returns a network with the same input_size, hidden_size, output_size,
\* learning_rate, sequence_length, W_output, b_output and normalization
\* parameters (all twelve, or none) as the network that was saved.
C4_SaveLoadRoundTrip ==
  (ret.op = "load" /\ Intact(mach, ret.file)) =>
    /\ loadedp # NULL
    /\ Persisted(NetVal(mach, loadedp)) = Persisted(hist.saved[ret.file].net)

\* a network with normalization parameters and a negative output weight was
\* saved and loaded
C4_Witness ==
  /\ ret.op = "load" /\ Intact(mach, ret.file) /\ loadedp # NULL
  /\ hist.saved[ret.file].net.norm # <<>>
  /\ hist.saved[ret.file].net.learning_rate # 0
  /\ \E i \in 1..Len(hist.saved[ret.file].net.W_output) :
       \E j \in 1..Len(hist.saved[ret.file].net.W_output[i]) :
         hist.saved[ret.file].net.W_output[i][j] < 0

\* the file holds fewer words than the last save wrote to it
Truncated(s, f) ==
  s.fs[f].exists /\ hist.saved[f].ok /\ Len(s.fs[f].data) < Len(hist.saved[f].words)

\* C5: load_lstm_model returns null for a missing file and for every truncated
\* model file; the file is then closed and no block that the load allocated
\* remains allocated.
C5_LoadFailsOnTruncatedFile ==
  [][(ret'.op = "load" /\ (~mach.fs[ret'.file].exists \/ Truncated(mach, ret'.file))) =>
       /\ ret'.null
       /\ mach'.nopen = 0
       /\ Live(mach') = Live(mach)]_vars
----------------------------------------------------------------------------
(* The training-data specification: a caller holding a dataset that builds *)
(* training data from it, changes or frees the dataset and frees the       *)
(* training data                                                           *)

MaxDataSteps == 3

InitData ==
  \E n \in 0..MaxPoints, capacity \in {2, MaxPoints} :
    \E ds \in {MakeDataset(Machine0(0), capacity, n)} :
      /\ mach = ds.s
      /\ netp = NULL
      /\ loadedp = NULL
      /\ dsp = ds.p
      /\ tdp = NULL
      /\ ret = NoRet
      /\ hist = [created |-> <<>>, saved |-> [f \in Files |-> NoSave]]
      /\ pc = "api"
      /\ steps = 0

DataStep == steps < MaxDataSteps /\ steps' = steps + 1

\* the size of the dataset (-1 for a null pointer)
SizeOf(s, ds) == IF ds = NULL THEN -1 ELSE s.mem[ds].size

CreateTrainingData(w) ==
  /\ DataStep
  /\ tdp = NULL
  /\ \E r \in {create_training_data(mach, dsp, w)} :
       /\ mach' = r.s
       /\ tdp' = r.p
       /\ ret' = [op |-> "create", w |-> w, n |-> SizeOf(mach, dsp), null |-> r.p = NULL]
  /\ UNCHANGED <<netp, loadedp, dsp, hist, pc>>

\* the caller overwrites the temperature of point i: dataset->data[i].temperature = v
MutateDataset(i, v) ==
  /\ DataStep
  /\ dsp # NULL
  /\ i <= mach.mem[dsp].size
  /\ mach' = [mach EXCEPT !.mem[mach.mem[dsp].data].pts[i][1] = v]
  /\ ret' = [op |-> "mutate", i |-> i]
  /\ UNCHANGED <<netp, loadedp, dsp, tdp, hist, pc>>

AddPoint ==
  /\ DataStep
  /\ dsp # NULL
  /\ mach.mem[dsp].size <= MaxPoints
  /\ \E r \in {weather_dataset_add(mach, dsp, TestPoint(mach.mem[dsp].size + 1))} :
       /\ mach' = r.s
       /\ ret' = [op |-> "add", v |-> r.v]
  /\ UNCHANGED <<netp, loadedp, dsp, tdp, hist, pc>>

FreeDataset ==
  /\ DataStep
  /\ dsp # NULL
  /\ mach' = weather_dataset_free(mach, dsp)
  /\ dsp' = NULL
  /\ ret' = [op |-> "free_dataset"]
  /\ UNCHANGED <<netp, loadedp, tdp, hist, pc>>

FreeTrainingData ==
  /\ DataStep
  /\ tdp # NULL
  /\ mach' = free_training_data(mach, tdp)
  /\ tdp' = NULL
  /\ ret' = [op |-> "free_training_data", num |-> mach.mem[tdp].num_sequences,
             len |-> mach.mem[tdp].sequence_length]
  /\ UNCHANGED <<netp, loadedp, dsp, hist, pc>>

NextData ==
  \/ \E w \in -1..(MaxPoints + 1) : CreateTrainingData(w)
  \/ \E i \in 1..MaxPoints : MutateDataset(i, 2 * Scale - 1)
  \/ AddPoint
  \/ FreeDataset
  \/ FreeTrainingData

SpecData == InitData /\ [][NextData]_vars
----------------------------------------------------------------------------
(* Properties of the training-data specification *)

\* the (6, 1) matrix value of a WeatherPoint
PointColumn(point) == [k \in 1..NumFeatures |-> <<point[k]>>]

\* data->inputs[i][t] and data->targets[i] (1-based)
InputAt(s, td, i, t) == s.mem[s.mem[s.mem[td].inputs].ptrs[i]].ptrs[t]
TargetAt(s, td, i) == s.mem[s.mem[td].targets].ptrs[i]

\* the slots of the training data and the matrix pointer each holds
Slots(s, td) ==
  {<<i, t>> : i \in 1..s.mem[td].num_sequences, t \in 0..s.mem[td].sequence_length}
SlotPtr(s, td, sl) ==
  IF sl[2] = 0 THEN TargetAt(s, td, sl[1]) ELSE InputAt(s, td, sl[1], sl[2])

\* the values of the training data, slot by slot
TDVal(s, td) == [sl \in Slots(s, td) |-> Val(s, SlotPtr(s, td, sl))]

\* the blocks of a matrix: the struct, the row array and the rows
MatrixBlocks(s, p) ==
  {p, s.mem[p].data} \cup {RowAddr(s, p, i) : i \in 1..Rows(s, p)}

\* the blocks of the training data: the struct, the arrays and the matrices
TDBlocks(s, td) ==
  {td, s.mem[td].inputs, s.mem[td].targets}
  \cup {s.mem[s.mem[td].inputs].ptrs[i] : i \in 1..s.mem[td].num_sequences}
  \cup UNION {MatrixBlocks(s, SlotPtr(s, td, sl)) : sl \in Slots(s, td)}

\* C3: for a dataset of size N and a window W with 1 <= W < N,
\* create_training_data returns training data with N - W pairs and
\* sequence_length W, inputs[i][t] holding the six fields of dataset[i + t]
\* and targets[i] those of dataset[i + W].
C3_WindowsAndTargets ==
  [][(ret'.op = "create" /\ dsp # NULL /\ 1 <= ret'.w /\ ret'.w < SizeOf(mach, dsp)) =>
       /\ tdp' # NULL
       /\ mach'.mem[tdp'].num_sequences = SizeOf(mach, dsp) - ret'.w
       /\ mach'.mem[tdp'].sequence_length = ret'.w
       /\ \A i \in 1..(SizeOf(mach, dsp) - ret'.w) :
            /\ \A t \in 1..ret'.w :
                 Val(mach', InputAt(mach', tdp', i, t))
                   = PointColumn(PointAt(mach, dsp, i + t - 1))
            /\ Val(mach', TargetAt(mach', tdp', i))
                 = PointColumn(PointAt(mach, dsp, i + ret'.w))]_vars

\* training data with overlapping windows has been built
C3_Witness ==
  /\ ret.op = "create" /\ tdp # NULL
  /\ mach.mem[tdp].num_sequences >= 2 /\ mach.mem[tdp].sequence_length >= 2

\* C9: create_training_data returns null when the dataset is null, when
\* sequence_length <= 0 and when the dataset size is <= sequence_length, and
\* then it has allocated nothing.
C9_RejectsShortDataset ==
  [][(ret'.op = "create" /\ (dsp = NULL \/ ret'.w <= 0 \/ SizeOf(mach, dsp) <= ret'.w)) =>
       /\ ret'.null
       /\ tdp' = NULL
       /\ mach' = mach]_vars

\* create_training_data was called on a dataset of size 3 with window 5
C9_Witness == ret.op = "create" /\ ret.n = 3 /\ ret.w = 5 /\ ret.null

\* C10: the matrices of the training data are independently owned copies: no
\* two slots hold the same matrix or share a block, no block belongs to the
\* dataset, changing or freeing the dataset changes no training value, and
\* free_training_data frees every block of the training data once.
C10_IndependentCopies ==
  [][/\ (ret'.op = "create" /\ tdp' # NULL) =>
          /\ \A a, b \in Slots(mach', tdp') :
               a # b => MatrixBlocks(mach', SlotPtr(mach', tdp', a))
                          \cap MatrixBlocks(mach', SlotPtr(mach', tdp', b)) = {}
          /\ \A a \in Slots(mach', tdp') : IsMatrix(mach', SlotPtr(mach', tdp', a))
          /\ TDBlocks(mach', tdp') \cap Live(mach) = {}
     /\ (ret'.op \in {"mutate", "add", "free_dataset"} /\ tdp # NULL) =>
          /\ TDVal(mach', tdp) = TDVal(mach, tdp)
          /\ TDBlocks(mach', tdp) \subseteq Live(mach')
     /\ ret'.op = "free_training_data" =>
          /\ mach'.ub = {}
          /\ TDBlocks(mach, tdp) \subseteq Live(mach)
          /\ Live(mach') = Live(mach) \ TDBlocks(mach, tdp)]_vars

\* training data with overlapping windows was freed after its dataset
C10_Witness ==
  /\ ret.op = "free_training_data" /\ ret.num >= 2 /\ ret.len >= 2
  /\ dsp = NULL
  /\ mach.ub = {}
----------------------------------------------------------------------------
(* CSV files: src/weather-lstm/src/weather_data.c 46-129, 203-225 *)

\* A CSV file is a sequence of lines, a line the sequence of its
\* comma-separated fields.  The fields of the header line are strings; a
\* field of a data line is <<v>> when it is the text of the number v and <<>>
\* when it is any other text.
IsNumber(field) == field # <<>>
atof(field) == IF IsNumber(field) THEN field[1] ELSE 0

\* lines 62-70: does the header line contain "timestamp"
HasTimestamps(header) ==
  \E k \in 1..Len(header) : header[k] \in {"timestamp", "unix_timestamp"}

\* lines 77-113: the WeatherPoint parsed from a data line, <<>> when fewer
\* than six fields are parsed
ParsedPoint(line, has_timestamps) ==
  IF has_timestamps
  THEN IF Len(line) >= NumFeatures + 2
       THEN Elems([k \in 1..NumFeatures |-> atof(line[k + 2])], NumFeatures)
       ELSE <<>>
  ELSE IF Len(line) >= NumFeatures /\ \A k \in 1..NumFeatures : IsNumber(line[k])
       THEN Elems([k \in 1..NumFeatures |-> atof(line[k])], NumFeatures)
       ELSE <<>>

\* lines 72-124: the data lines from `lines` on; r is the result of
\* weather_dataset_add for the first of them
RECURSIVE load_csv_lines(_, _, _, _)
RECURSIVE load_csv_added(_, _, _, _)
load_csv_added(r, dataset, lines, has_timestamps) ==
  IF r.v # 0 THEN [s |-> fclose(r.s), v |-> -1]
  ELSE load_csv_lines(r.s, dataset, Tail(lines), has_timestamps)

load_csv_lines(s, dataset, lines, has_timestamps) ==
  IF lines = <<>> THEN [s |-> fclose(s), v |-> 0]
  ELSE IF ParsedPoint(Head(lines), has_timestamps) = <<>>
  THEN load_csv_lines(s, dataset, Tail(lines), has_timestamps)
  ELSE load_csv_added(
         weather_dataset_add(s, dataset, ParsedPoint(Head(lines), has_timestamps)),
         dataset, lines, has_timestamps)

\* line 56, char line[512]: the number of fields of a line that fit into
\* the buffer (every field stands for a text of the same width)
LineBuf == 9

\* lines 61, 72: the strings that successive fgets(line, sizeof(line), file)
\* calls return for one line of the file: a line that does not fit into
\* the buffer is returned in pieces
RECURSIVE fgets(_)
fgets(line) ==
  IF Len(line) <= LineBuf THEN <<line>>
  ELSE <<SubSeq(line, 1, LineBuf)>> \o fgets(SubSeq(line, LineBuf + 1, Len(line)))

\* the strings fgets returns until the end of the file
FileLines(data) == Flatten([k \in 1..Len(data) |-> fgets(data[k])])

weather_load_csv(s, filename, dataset) ==
  IF dataset = NULL \/ ~s.fs[filename].exists THEN [s |-> s, v |-> -1]
  ELSE IF s.fs[filename].data = <<>> THEN [s |-> fclose(fopen(s)), v |-> 0]
  ELSE load_csv_lines(fopen(s), dataset, Tail(FileLines(s.fs[filename].data)),
                      HasTimestamps(Head(FileLines(s.fs[filename].data))))

\* NormalizedField of a normalizer that does not subtract the minimum
NormalizedField_unshifted(point, v, k) ==
  IF v[2 * k] - v[2 * k - 1] > 0
  THEN FDiv(point[k], v[2 * k] - v[2 * k - 1])
  ELSE Scale \div 2

\* the normalized value of field k of a point
NormalizedField(point, v, k) ==
  IF v[2 * k] - v[2 * k - 1] > 0
  THEN FDiv(point[k] - v[2 * k - 1], v[2 * k] - v[2 * k - 1])
  ELSE Scale \div 2

normalize_dataset(s, dataset, params) ==
  IF dataset = NULL \/ params = NULL THEN s
  ELSE [s EXCEPT !.mem[s.mem[dataset].data].pts =
          Elems([i \in 1..Len(@) |->
                   IF i > s.mem[dataset].size THEN @[i]
                   ELSE Elems([k \in 1..NumFeatures |->
                                 NormalizedField(@[i], s.mem[params].v, k)],
                              NumFeatures)],
                Len(@))]

----------------------------------------------------------------------------
(* The training program: src/weather-lstm/src/lstm.c 811-980 *)

InitialCapacity == 1000        \* line 871

\* a run that has returned with the exit code
Exited(s, code) == [s |-> s, code |-> code, dataset |-> NULL, training_data |-> NULL,
                    network |-> NULL]

\* lines 916-927: network is the result of lstm_network_create
main_network(network, training_data, norm_params, dataset, args) ==
  IF network.p = NULL
  THEN Exited(weather_dataset_free(
                Free(free_training_data(network.s, training_data), norm_params),
                dataset), 1)
  ELSE [s |-> [network.s EXCEPT
                 !.mem[network.p].learning_rate = args.learning_rate,
                 !.mem[network.p].sequence_length = args.sequence,
                 !.mem[network.p].norm_params = norm_params],
        code |-> -1, dataset |-> dataset, training_data |-> training_data,
        network |-> network.p]

\* lines 904-916: training_data is the result of create_training_data
main_training_data(training_data, norm_params, dataset, args) ==
  IF training_data.p = NULL
  THEN Exited(weather_dataset_free(Free(training_data.s, norm_params), dataset), 1)
  ELSE main_network(lstm_network_create(training_data.s, NumFeatures, args.hidden,
                                        NumFeatures),
                    training_data.p, norm_params, dataset, args)

\* lines 892-904: norm_params is the result of calculate_normalization_params
main_norm_params(norm_params, dataset, args) ==
  IF norm_params.p = NULL THEN Exited(weather_dataset_free(norm_params.s, dataset), 1)
  ELSE main_training_data(
         create_training_data(normalize_dataset(norm_params.s, dataset, norm_params.p),
                              dataset, args.sequence),
         norm_params.p, dataset, args)

\* lines 877-892: r is the result of weather_load_csv
main_loaded(r, dataset, args) ==
  IF r.v # 0 THEN Exited(weather_dataset_free(r.s, dataset), 1)
  ELSE IF r.s.mem[dataset].size <= args.sequence
  THEN Exited(weather_dataset_free(r.s, dataset), 1)
  ELSE main_norm_params(calculate_normalization_params(r.s, dataset), dataset, args)

\* lines 871-877: dataset is the result of weather_dataset_create
main_dataset(dataset, args) ==
  IF dataset.p = NULL THEN Exited(dataset.s, 1)
  ELSE main_loaded(weather_load_csv(dataset.s, args.data, dataset.p), dataset.p, args)

\* lines 811-927: from the start of main to the configured network.  args are
\* the values of the command line, args.seed the value of time(NULL)
main_setup(s, args) ==
  IF args.epochs <= 0 \/ args.hidden <= 0 \/ args.sequence <= 0 \/ args.learning_rate <= 0
  THEN Exited(s, 1)
  ELSE main_dataset(weather_dataset_create([s EXCEPT !.rng = args.seed], InitialCapacity),
                    args)

\* lines 942-963: predicted is the result of the test prediction
main_predicted(predicted) ==
  After(predicted, matrix_free(predicted.s, predicted.p))

\* lines 939-963: s is the state after lstm_train; the test on the last sequence
main_trained(s, network, training_data, args) ==
  After(s, main_predicted(
             lstm_network_predict(
               s, network,
               s.mem[s.mem[training_data].inputs].ptrs[s.mem[training_data].num_sequences],
               args.sequence)))

\* lines 928-963: the training and the test
main_train(s, network, training_data, args) ==
  main_trained(lstm_train(s, network, training_data, args.epochs), network,
               training_data, args)

\* lines 965-979: r is the result of save_lstm_model; the clean-up
main_finish(r, network, training_data, dataset) ==
  After(r, lstm_network_free(
             weather_dataset_free(free_training_data(r.s, training_data), dataset),
             network))
----------------------------------------------------------------------------
(* The training-program specification: the program is run, again and      *)
(* again, on the same data file and the same model file                    *)

MaxRuns == 2

LegacyHeader ==
  <<"temperature", "pressure", "humidity", "wind_speed", "wind_direction", "precipitation">>

\* the data line of point k, with or without the two timestamp columns
CsvLine(k, has_timestamps) ==
  (IF has_timestamps THEN <<<<>>, <<k>>>> ELSE <<>>)
  \o Elems([i \in 1..NumFeatures |-> <<TestPoint(k)[i]>>], NumFeatures)

\* a data file of MaxPoints points and a line that is not a point
CsvSample(has_timestamps) ==
  <<(IF has_timestamps THEN <<"timestamp", "unix_timestamp">> ELSE <<>>) \o LegacyHeader>>
  \o Elems([k \in 1..MaxPoints |-> CsvLine(k, has_timestamps)], MaxPoints)
  \o <<(IF has_timestamps THEN <<<<>>, <<0>>>> ELSE <<>>) \o <<<<Scale>>, <<>>>>>>

\* the command lines of the runs
MainArgs ==
  [data : {"data.csv"}, output : {"a.bin"}, epochs : 1..MaxEpochs, hidden : {1, 2},
   sequence : {MaxSeqLen, MaxPoints}, learning_rate : {Scale \div 2}, seed : Seeds]

InitMain ==
  \E has_timestamps \in BOOLEAN :
    /\ mach = [Machine0(0) EXCEPT !.fs["data.csv"] =
                 [exists |-> TRUE, data |-> CsvSample(has_timestamps)]]
    /\ netp = NULL
    /\ loadedp = NULL
    /\ dsp = NULL
    /\ tdp = NULL
    /\ ret = NoRet
    /\ hist = [created |-> <<>>, saved |-> [f \in Files |-> NoSave], args |-> <<>>]
    /\ pc = "idle"
    /\ steps = 0

\* a run starts and reaches the configured network, or exits
MainSetup(args) ==
  /\ pc = "idle"
  /\ steps < MaxRuns
  /\ steps' = steps + 1
  /\ \E r \in {main_setup(mach, args)} :
       /\ mach' = r.s
       /\ dsp' = r.dataset
       /\ tdp' = r.training_data
       /\ netp' = r.network
       /\ pc' = IF r.code = -1 THEN "created" ELSE "idle"
       /\ ret' = [op |-> "main", code |-> r.code]
  /\ hist' = [hist EXCEPT !.args = args]
  /\ UNCHANGED loadedp

MainTrain ==
  /\ pc = "created"
  /\ mach' = main_train(mach, netp, tdp, hist.args)
  /\ pc' = "trained"
  /\ UNCHANGED <<netp, loadedp, dsp, tdp, ret, hist, steps>>

MainFinish ==
  /\ pc = "trained"
  /\ \E r \in {save_lstm_model(mach, netp, hist.args.output)} :
       /\ mach' = main_finish(r, netp, tdp, dsp)
       /\ ret' = [op |-> "main", code |-> 0]
       /\ hist' = IF r.v # 0 THEN hist
                  ELSE [hist EXCEPT !.saved[hist.args.output] =
                          [ok |-> TRUE, words |-> r.s.fs[hist.args.output].data,
                           net |-> NetVal(mach, netp)]]
  /\ pc' = "idle"
  /\ netp' = NULL
  /\ dsp' = NULL
  /\ tdp' = NULL
  /\ UNCHANGED <<loadedp, steps>>

NextMain ==
  \/ \E args \in MainArgs : MainSetup(args)
  \/ MainTrain
  \/ MainFinish

SpecMain == InitMain /\ [][NextMain]_vars

----------------------------------------------------------------------------
(* Properties of the training-program specification *)

\* C8: when the training program is run and the model file of a previous run
\* exists, the network that is trained starts from the weights of that model.
C8_TrainingContinuesFromModel ==
  (/\ pc = "created"
   /\ hist.saved[hist.args.output].ok
   /\ hist.saved[hist.args.output].net.hidden_size = hist.args.hidden) =>
    /\ Val(mach, mach.mem[netp].W_output) = hist.saved[hist.args.output].net.W_output
    /\ Val(mach, mach.mem[netp].b_output) = hist.saved[hist.args.output].net.b_output
----------------------------------------------------------------------------
(* The cell specification: a caller that runs forward passes on the cell   *)
(* of a network and keeps the matrices they return, writes to them, frees  *)
(* them and resets the cell                                                *)

MaxCellSteps == 3
MaxOutputs == 2     \* returned matrices the caller holds at a time

InitCell ==
  \E seed \in Seeds, dims \in NetDims :
    \E net \in {lstm_network_create(Machine0(seed), dims[1], dims[2], dims[3])} :
      /\ mach = net.s
      /\ netp = net.p
      /\ loadedp = NULL
      /\ dsp = NULL
      /\ tdp = NULL
      /\ ret = NoRet
      /\ hist = [created |-> NetVal(net.s, net.p), outs |-> <<>>]
      /\ pc = "cell"
      /\ steps = 0

CellStep == steps < MaxCellSteps /\ steps' = steps + 1

\* lstm_cell_forward on an input the caller builds and frees; the caller
\* keeps the returned matrix
ForwardKeep(x) ==
  /\ CellStep
  /\ Len(hist.outs) < MaxOutputs
  /\ \E in \in {MakeMatrix(mach, x)} :
       \E r \in {lstm_cell_forward(in.s, in.s.mem[netp].lstm_layer, in.p)} :
         /\ mach' = matrix_free(r.s, in.p)
         /\ ret' = [op |-> "forward", input |-> x, null |-> r.p = NULL, p |-> r.p]
         /\ hist' = IF r.p = NULL THEN hist ELSE [hist EXCEPT !.outs = Append(@, r.p)]
  /\ UNCHANGED <<netp, loadedp, dsp, tdp, pc>>

\* matrix_set on the k-th matrix the caller holds
WriteOutput(k, row, value) ==
  /\ CellStep
  /\ k \in 1..Len(hist.outs)
  /\ mach' = matrix_set(mach, hist.outs[k], row, 0, value)
  /\ ret' = [op |-> "write", p |-> hist.outs[k], row |-> row, value |-> value]
  /\ UNCHANGED <<netp, loadedp, dsp, tdp, hist, pc>>

\* matrix_free of the k-th matrix the caller holds
FreeOutput(k) ==
  /\ CellStep
  /\ k \in 1..Len(hist.outs)
  /\ mach' = matrix_free(mach, hist.outs[k])
  /\ ret' = [op |-> "free_output", p |-> hist.outs[k]]
  /\ hist' = [hist EXCEPT !.outs = SubSeq(@, 1, k - 1) \o SubSeq(@, k + 1, Len(@))]
  /\ UNCHANGED <<netp, loadedp, dsp, tdp, pc>>

\* what a reset reports: the function called and the states it found
ResetRet(via) ==
  [op |-> "reset_state", via |-> via,
   hidden |-> Val(mach, mach.mem[mach.mem[netp].lstm_layer].hidden_state),
   cell |-> Val(mach, mach.mem[mach.mem[netp].lstm_layer].cell_state)]

ResetState ==
  /\ CellStep
  /\ mach' = lstm_cell_reset_state(mach, mach.mem[netp].lstm_layer)
  /\ ret' = ResetRet("lstm_cell_reset_state")
  /\ UNCHANGED <<netp, loadedp, dsp, tdp, hist, pc>>

ResetNetwork ==
  /\ CellStep
  /\ mach' = lstm_network_reset(mach, netp)
  /\ ret' = ResetRet("lstm_network_reset")
  /\ UNCHANGED <<netp, loadedp, dsp, tdp, hist, pc>>

NextCell ==
  \/ \E x \in ValidInputs(NumFeatures) : ForwardKeep(x)
  \/ \E k \in 1..MaxOutputs, row \in 0..1 : WriteOutput(k, row, 3 * Scale)
  \/ \E k \in 1..MaxOutputs : FreeOutput(k)
  \/ ResetState
  \/ ResetNetwork

SpecCell == InitCell /\ [][NextCell]_vars

----------------------------------------------------------------------------
(* Properties of the cell specification *)

\* C11: a successful lstm_cell_forward returns a newly allocated matrix of
\* shape (hidden_size, 1) that holds the cell's hidden_state after the step;
\* writing to or freeing a returned matrix leaves hidden_state and cell_state
\* as they were, and a later forward or reset leaves the returned matrices
\* the caller holds as they were.
C11_ForwardReturnsOwnedCopy ==
  [][/\ (ret'.op = "forward" /\ ~ret'.null) =>
          /\ IsMatrix(mach', ret'.p)
          /\ MatrixBlocks(mach', ret'.p) \cap Live(mach) = {}
          /\ Shape(mach', ret'.p) = <<mach.mem[Cell].hidden_size, 1>>
          /\ Val(mach', ret'.p) = Val(mach', mach'.mem[Cell].hidden_state)
     /\ ret'.op \in {"write", "free_output"} =>
          /\ Val(mach', mach'.mem[Cell].hidden_state) = Val(mach, mach.mem[Cell].hidden_state)
          /\ Val(mach', mach'.mem[Cell].cell_state) = Val(mach, mach.mem[Cell].cell_state)
          /\ mach'.ub = {}
     /\ ret'.op \in {"forward", "reset_state"} =>
          \A k \in 1..Len(hist.outs) :
            Val(mach', hist.outs[k]) = Val(mach, hist.outs[k])]_vars

\* the caller holds a matrix returned by an earlier forward pass, with
\* non-zero entries, while a later forward pass has changed the hidden state
C11_Witness ==
  /\ ret.op = "forward"
  /\ Len(hist.outs) = 2
  /\ Val(mach, hist.outs[1]) # Val(mach, mach.mem[Cell].hidden_state)
  /\ \E i \in 1..Len(Val(mach, hist.outs[1])) : Val(mach, hist.outs[1])[i][1] # 0
----------------------------------------------------------------------------
(* Prediction of the next point: src/weather-lstm/src/lstm.c 505-536 and   *)
(* src/weather-lstm/src/weather_data.c 263-279                             *)

\* WeatherPoint point = {0}
ZeroPoint == Array(NumFeatures, 0)

matrix_to_weather_point(s, m) ==
  IF m = NULL \/ Rows(s, m) # NumFeatures \/ Cols(s, m) # 1 THEN ZeroPoint
  ELSE Elems([i \in 1..NumFeatures |-> Get(s, m, i, 1)], NumFeatures)

\* lines 517-520: sequence[i] for i (1-based) up to seq_length; m is the
\* result of weather_point_to_matrix for element i
RECURSIVE predict_next_fill(_, _, _, _, _, _)
RECURSIVE predict_next_point(_, _, _, _, _, _)
predict_next_point(m, sequence, recent_data, start_idx, i, seq_length) ==
  After(m, predict_next_fill([m.s EXCEPT !.mem[sequence].ptrs[i] = m.p],
                             sequence, recent_data, start_idx, i + 1, seq_length))

predict_next_fill(s, sequence, recent_data, start_idx, i, seq_length) ==
  IF i > seq_length THEN s
  ELSE predict_next_point(weather_point_to_matrix(s, PointAt(s, recent_data, start_idx + i)),
                          sequence, recent_data, start_idx, i, seq_length)

\* lines 523-535: prediction is the result of lstm_network_predict
predict_next_prediction(prediction, sequence) ==
  After(prediction,
    [s |-> Free(FreeMatrices(matrix_free(prediction.s, prediction.p),
                             prediction.s.mem[sequence].ptrs),
                sequence),
     v |-> IF prediction.p = NULL THEN ZeroPoint
           ELSE matrix_to_weather_point(prediction.s, prediction.p)])

\* lines 514-523: sequence is the result of malloc(seq_length * sizeof(Matrix*))
predict_next_sequence(sequence, network, recent_data, seq_length) ==
  IF sequence.p = NULL THEN [s |-> sequence.s, v |-> ZeroPoint]
  ELSE predict_next_prediction(
         lstm_network_predict(
           predict_next_fill(sequence.s, sequence.p, recent_data,
                             sequence.s.mem[recent_data].size - seq_length, 1, seq_length),
           network, sequence.p, seq_length),
         sequence.p)

lstm_predict_next(s, network, recent_data, seq_length) ==
  IF network = NULL \/ recent_data = NULL THEN [s |-> s, v |-> ZeroPoint]
  ELSE IF s.mem[recent_data].size < seq_length THEN [s |-> s, v |-> ZeroPoint]
  ELSE predict_next_sequence(
         Malloc(s, seq_length, [kind |-> "ptrs", ptrs |-> Array(seq_length, GARBAGE)]),
         network, recent_data, seq_length)

----------------------------------------------------------------------------
(* The next-point specification: a caller holding a network and a dataset  *)
(* of recent points, adding points and asking for the next one             *)

MaxNextSteps == 3

InitNext ==
  \E seed \in Seeds, dims \in NetDims :
    \E net \in {lstm_network_create(Machine0(seed), dims[1], dims[2], dims[3])} :
      \E ds \in {weather_dataset_create(net.s, MaxPoints)} :
        /\ mach = ds.s
        /\ netp = net.p
        /\ loadedp = NULL
        /\ dsp = ds.p
        /\ tdp = NULL
        /\ ret = NoRet
        /\ hist = [failed |-> {}, succeeded |-> {}]
        /\ pc = "next"
        /\ steps = 0

NextStep == steps < MaxNextSteps /\ steps' = steps + 1

\* the point the caller adds as the n-th: the origin of every scale, or the
\* n-th point of the synthetic series
RecentPoint(n, origin) == IF origin THEN ZeroPoint ELSE TestPoint(n)

AddRecent(origin) ==
  /\ NextStep
  /\ \E r \in {weather_dataset_add(mach, dsp,
                                   RecentPoint(mach.mem[dsp].size + 1, origin))} :
       /\ mach' = r.s
       /\ ret' = [op |-> "add", v |-> r.v]
  /\ UNCHANGED <<netp, loadedp, dsp, tdp, hist, pc>>

\* lstm_predict_next; the caller records the value it got from a call on a
\* dataset with fewer than seq_length points (failed) and from a call on a
\* dataset with enough points (succeeded)
PredictNext(seq_length) ==
  /\ NextStep
  /\ \E r \in {lstm_predict_next(mach, netp, dsp, seq_length)} :
       /\ mach' = r.s
       /\ ret' = [op |-> "predict_next", seq_length |-> seq_length,
                  n |-> mach.mem[dsp].size, v |-> r.v]
       /\ hist' = IF mach.mem[dsp].size < seq_length
                  THEN [hist EXCEPT !.failed = @ \cup {r.v}]
                  ELSE [hist EXCEPT !.succeeded = @ \cup {r.v}]
  /\ UNCHANGED <<netp, loadedp, dsp, tdp, pc>>

NextNextPoint ==
  \/ \E origin \in BOOLEAN : AddRecent(origin)
  \/ \E seq_length \in 1..MaxSeqLen : PredictNext(seq_length)

SpecNext == InitNext /\ [][NextNextPoint]_vars

----------------------------------------------------------------------------
(* Properties of the next-point specification *)

\* C12: lstm_predict_next on a dataset with fewer than seq_length points
\* fails, and the value the caller gets then is distinct from every value a
\* successful prediction returns.
C12_FailureValueIsDistinct ==
  /\ hist.failed \subseteq {ZeroPoint}
  /\ hist.failed \cap hist.succeeded = {}
----------------------------------------------------------------------------
(* The allocation-failure specification: a caller holding a network, a     *)
(* dataset and an input sequence makes one call while the allocator can    *)
(* satisfy only the next k requests                                        *)

MaxAllocs == 80     \* largest number of requests the allocator satisfies

\* the machine whose allocator satisfies k more requests
Budget(s, k) == [s EXCEPT !.oom = k]

\* r is the result of a call made with a budget of k + 1 requests: the call
\* has used them all, so with a budget of k one of its requests fails
AllocFails(r) == r.s.oom = 0

InitAlloc ==
  \E seed \in Seeds, dims \in NetDims :
    \E net \in {lstm_network_create(Machine0(seed), dims[1], dims[2], dims[3])} :
      \E ds \in {MakeDataset(net.s, MaxPoints, 3)} :
        \E sq \in {MakeSequence(ds.s, <<Column(NumFeatures, Scale, 0),
                                        Column(NumFeatures, Scale \div 2, Scale)>>)} :
          /\ mach = sq.s
          /\ netp = net.p
          /\ loadedp = NULL
          /\ dsp = ds.p
          /\ tdp = NULL
          /\ ret = NoRet
          /\ hist = [seq |-> sq.p]
          /\ pc = "ready"
          /\ steps = 0

\* what the caller sees of a call: r is its result with the budget k, r1 its
\* result with the budget k + 1
Outcome(op, k, r, r1) ==
  [op |-> op, k |-> k, failed |-> AllocFails(r1), null |-> r.p = NULL,
   leaked |-> Live(r.s) \ Live(mach), ub |-> r.s.ub]

Called(op, k, r, r1) ==
  /\ pc = "ready"
  /\ pc' = "called"
  /\ mach' = r.s
  /\ ret' = Outcome(op, k, r, r1)
  /\ UNCHANGED <<netp, loadedp, dsp, tdp, hist, steps>>

MatrixCreateUnder(k, rows, cols) ==
  Called("matrix_create", k, matrix_create(Budget(mach, k), rows, cols),
         matrix_create(Budget(mach, k + 1), rows, cols))

CellCreateUnder(k) ==
  Called("lstm_cell_create", k,
         lstm_cell_create(Budget(mach, k), NumFeatures, mach.mem[netp].hidden_size),
         lstm_cell_create(Budget(mach, k + 1), NumFeatures, mach.mem[netp].hidden_size))

NetworkCreateUnder(k) ==
  Called("lstm_network_create", k,
         lstm_network_create(Budget(mach, k), NumFeatures, mach.mem[netp].hidden_size,
                             NumFeatures),
         lstm_network_create(Budget(mach, k + 1), NumFeatures, mach.mem[netp].hidden_size,
                             NumFeatures))

TrainingDataUnder(k, w) ==
  Called("create_training_data", k, create_training_data(Budget(mach, k), dsp, w),
         create_training_data(Budget(mach, k + 1), dsp, w))

ForwardUnder(k) ==
  Called("lstm_cell_forward", k,
         lstm_cell_forward(Budget(mach, k), mach.mem[netp].lstm_layer,
                           mach.mem[hist.seq].ptrs[1]),
         lstm_cell_forward(Budget(mach, k + 1), mach.mem[netp].lstm_layer,
                           mach.mem[hist.seq].ptrs[1]))

PredictUnder(k, seq_length) ==
  Called("lstm_network_predict", k,
         lstm_network_predict(Budget(mach, k), netp, hist.seq, seq_length),
         lstm_network_predict(Budget(mach, k + 1), netp, hist.seq, seq_length))

NextAlloc ==
  \/ \E k \in 0..MaxAllocs, rows \in 1..2, cols \in 1..2 : MatrixCreateUnder(k, rows, cols)
  \/ \E k \in 0..MaxAllocs : CellCreateUnder(k)
  \/ \E k \in 0..MaxAllocs : NetworkCreateUnder(k)
  \/ \E k \in 0..MaxAllocs, w \in 1..2 : TrainingDataUnder(k, w)
  \/ \E k \in 0..MaxAllocs : ForwardUnder(k)
  \/ \E k \in 0..MaxAllocs, seq_length \in 1..2 : PredictUnder(k, seq_length)

SpecAlloc == InitAlloc /\ [][NextAlloc]_vars

----------------------------------------------------------------------------
(* Properties of the allocation-failure specification *)

Constructors ==
  {"matrix_create", "lstm_cell_create", "lstm_network_create", "create_training_data"}

\* C13: when an allocation fails part-way through matrix_create,
\* lstm_cell_create, lstm_network_create or create_training_data, the
\* constructor returns null and has released everything it had allocated.
C13_FailedConstructorLeaksNothing ==
  (ret.op \in Constructors /\ ret.failed) => (ret.null /\ ret.leaked = {} /\ ret.ub = {})

\* C14: when a matrix allocation inside lstm_cell_forward or
\* lstm_network_predict fails, the call returns null and no null matrix is
\* dereferenced.
C14_ForwardReportsAllocationFailure ==
  (ret.op \in {"lstm_cell_forward", "lstm_network_predict"} /\ ret.failed) =>
    (ret.null /\ ret.ub = {})
----------------------------------------------------------------------------
(* The matrix specification: a caller that holds two matrices a and b and  *)
(* calls the matrix operations on them (test_matrix_operations,            *)
(* src/unnamed/part_005 59-105).  Entries are whole numbers, which the     *)
(* fixed-point products represent exactly.                                 *)

MaxMatrixSteps == 1

ShapesA == {<<1, 2>>, <<2, 2>>, <<2, 3>>}
ShapesB == {<<2, 1>>, <<2, 2>>, <<3, 2>>}
Patterns == {0, 1}
Indices == -1..3        \* row and column arguments of matrix_get / matrix_set
Dimensions == -1..2     \* rows and cols arguments of matrix_create
NewEntry == 3 * Scale   \* the value matrix_set writes; no entry of a holds it

\* the entries the caller writes with matrix_set: whole numbers in -2..2
Entries(shape, pat) ==
  Elems([i \in 1..shape[1] |->
           Elems([j \in 1..shape[2] |-> (((pat + 2 * i + 3 * j) % 5) - 2) * Scale],
                 shape[2])],
        shape[1])

InitMatrix ==
  \E sa \in ShapesA, sb \in ShapesB, pat \in Patterns, m0 \in BOOLEAN :
    \E a \in {MakeMatrix([Machine0(0) EXCEPT !.malloc0null = m0], Entries(sa, pat))} :
      \E b \in {MakeMatrix(a.s, Entries(sb, pat + 2))} :
        /\ mach = b.s
        /\ netp = NULL
        /\ loadedp = NULL
        /\ dsp = NULL
        /\ tdp = NULL
        /\ ret = NoRet
        /\ hist = [a |-> a.p, b |-> b.p]
        /\ pc = "matrix"
        /\ steps = 0

MatrixStep == steps < MaxMatrixSteps /\ steps' = steps + 1

\* what the caller sees of the matrix r.p an operation returned, before
\* freeing it
Returned(op, r) ==
  [op |-> op, null |-> r.p = NULL, shape |-> Shape(r.s, r.p), val |-> Val(r.s, r.p),
   fresh |-> r.p # NULL /\ MatrixBlocks(r.s, r.p) \cap Live(mach) = {},
   a |-> Val(r.s, hist.a), b |-> Val(r.s, hist.b), ub |-> r.s.ub]

Multiply ==
  /\ MatrixStep
  /\ \E r \in {matrix_multiply(mach, hist.a, hist.b)} :
       /\ mach' = matrix_free(r.s, r.p)
       /\ ret' = Returned("multiply", r)
  /\ UNCHANGED <<netp, loadedp, dsp, tdp, hist, pc>>

Add ==
  /\ MatrixStep
  /\ \E r \in {matrix_add(mach, hist.a, hist.b)} :
       /\ mach' = matrix_free(r.s, r.p)
       /\ ret' = Returned("add", r)
  /\ UNCHANGED <<netp, loadedp, dsp, tdp, hist, pc>>

Subtract ==
  /\ MatrixStep
  /\ \E r \in {matrix_subtract(mach, hist.a, hist.b)} :
       /\ mach' = matrix_free(r.s, r.p)
       /\ ret' = Returned("subtract", r)
  /\ UNCHANGED <<netp, loadedp, dsp, tdp, hist, pc>>

Create(rows, cols) ==
  /\ MatrixStep
  /\ \E r \in {matrix_create(mach, rows, cols)} :
       /\ mach' = matrix_free(r.s, r.p)
       /\ ret' = [op |-> "create", rows |-> rows, cols |-> cols, null |-> r.p = NULL,
                  shape |-> Shape(r.s, r.p), val |-> Val(r.s, r.p), ub |-> r.s.ub]
  /\ UNCHANGED <<netp, loadedp, dsp, tdp, hist, pc>>

\* matrix_set on a, then matrix_get of the same entry
SetEntry(row, col, value) ==
  /\ MatrixStep
  /\ mach' = matrix_set(mach, hist.a, row, col, value)
  /\ ret' = [op |-> "set", row |-> row, col |-> col, value |-> value,
             got |-> matrix_get(mach', hist.a, row, col)]
  /\ UNCHANGED <<netp, loadedp, dsp, tdp, hist, pc>>

GetEntry(row, col) ==
  /\ MatrixStep
  /\ ret' = [op |-> "get", row |-> row, col |-> col,
             got |-> matrix_get(mach, hist.a, row, col)]
  /\ UNCHANGED <<mach, netp, loadedp, dsp, tdp, hist, pc>>

\* an argument of calculate_loss: one of the matrices, or a null pointer
Operand(x) == IF x = "null" THEN NULL ELSE hist[x]

Loss(x, y) ==
  /\ MatrixStep
  /\ ret' = [op |-> "loss", predicted |-> x, target |-> y,
             v |-> calculate_loss(mach, Operand(x), Operand(y))]
  /\ UNCHANGED <<mach, netp, loadedp, dsp, tdp, hist, pc>>

NextMatrix ==
  \/ Multiply
  \/ Add
  \/ Subtract
  \/ \E rows \in Dimensions, cols \in Dimensions : Create(rows, cols)
  \/ \E row \in Indices, col \in Indices : SetEntry(row, col, NewEntry)
  \/ \E row \in Indices, col \in Indices : GetEntry(row, col)
  \/ \E x \in {"a", "b", "null"}, y \in {"a", "b", "null"} : Loss(x, y)

SpecMatrix == InitMatrix /\ [][NextMatrix]_vars

\* the sum over k of A[i][k] * B[k][j], for 1-based i and j
RECURSIVE DotProduct(_, _, _, _, _)
DotProduct(A, B, i, j, k) ==
  IF k = 0 THEN 0 ELSE DotProduct(A, B, i, j, k - 1) + (A[i][k] * B[k][j]) \div Scale

\* C15: matrix_multiply of A (m,n) and B (n,p) returns a new matrix of shape
\* (m,p) whose entry [i][j] is the sum over k of A[i][k]*B[k][j], and leaves
\* A and B unchanged.
C15_MultiplyIsTheMatrixProduct ==
  [][(ret'.op = "multiply" /\ Cols(mach, hist.a) = Rows(mach, hist.b)) =>
       /\ ~ret'.null
       /\ ret'.fresh
       /\ ret'.shape = <<Rows(mach, hist.a), Cols(mach, hist.b)>>
       /\ \A i \in 1..Rows(mach, hist.a), j \in 1..Cols(mach, hist.b) :
            ret'.val[i][j] = DotProduct(Val(mach, hist.a), Val(mach, hist.b), i, j,
                                        Cols(mach, hist.a))
       /\ ret'.a = Val(mach, hist.a)
       /\ ret'.b = Val(mach, hist.b)
       /\ Val(mach', hist.a) = Val(mach, hist.a)
       /\ Val(mach', hist.b) = Val(mach, hist.b)]_vars

\* a product of a (2,3) and a (3,2) matrix has been computed, and it is not
\* the zero matrix
C15_Witness ==
  /\ pc = "matrix"
  /\ ret.op = "multiply"
  /\ ~ret.null
  /\ Shape(mach, hist.a) = <<2, 3>>
  /\ ret.shape = <<2, 2>>
  /\ \A i \in 1..2 : \E j \in 1..2 : ret.val[i][j] # 0

\* C16: matrix_multiply returns null whenever a.cols # b.rows, and
\* matrix_add and matrix_subtract return null whenever the shapes of the
\* operands differ; in each of these cases no block is allocated and the
\* operands (the whole memory) are as before.
C16_ShapeMismatchFails ==
  [][(\/ ret'.op = "multiply" /\ Cols(mach, hist.a) # Rows(mach, hist.b)
      \/ ret'.op \in {"add", "subtract"} /\ Shape(mach, hist.a) # Shape(mach, hist.b)) =>
       /\ ret'.null
       /\ ret'.a = Val(mach, hist.a)
       /\ ret'.b = Val(mach, hist.b)
       /\ ret'.ub = {}
       /\ mach' = mach]_vars

\* matrix_add has refused a (2,3) and a (3,2) matrix, which hold the same
\* number of entries
C16_Witness ==
  /\ pc = "matrix"
  /\ ret.op = "add"
  /\ ret.null
  /\ Shape(mach, hist.a) = <<2, 3>>
  /\ Shape(mach, hist.b) = <<3, 2>>

\* C17: matrix_create returns null whenever rows <= 0 or cols <= 0, so every
\* matrix it returns has positive row and column counts and holds only
\* zeros.
C17_CreateRejectsNonPositive ==
  ret.op = "create" =>
    /\ (ret.rows <= 0 \/ ret.cols <= 0) => ret.null
    /\ ~ret.null =>
         /\ ret.shape[1] > 0
         /\ ret.shape[2] > 0
         /\ \A i \in 1..ret.shape[1], j \in 1..ret.shape[2] : ret.val[i][j] = 0

InBounds(s, m, row, col) == row >= 0 /\ row < Rows(s, m) /\ col >= 0 /\ col < Cols(s, m)

\* C18: out of bounds, matrix_get returns 0 and matrix_set changes no entry;
\* in bounds, matrix_get after matrix_set(m, row, col, v) returns v and
\* every other entry is as before.
C18_GetSetAreBoundsChecked ==
  [][/\ (ret'.op = "get" /\ ~InBounds(mach, hist.a, ret'.row, ret'.col)) =>
          ret'.got = 0
     /\ (ret'.op = "get" /\ InBounds(mach, hist.a, ret'.row, ret'.col)) =>
          ret'.got = Val(mach, hist.a)[ret'.row + 1][ret'.col + 1]
     /\ (ret'.op = "set" /\ ~InBounds(mach, hist.a, ret'.row, ret'.col)) =>
          /\ mach' = mach
          /\ ret'.got = 0
     /\ (ret'.op = "set" /\ InBounds(mach, hist.a, ret'.row, ret'.col)) =>
          /\ ret'.got = ret'.value
          /\ Shape(mach', hist.a) = Shape(mach, hist.a)
          /\ \A i \in 1..Rows(mach, hist.a), j \in 1..Cols(mach, hist.a) :
               Val(mach', hist.a)[i][j] =
                 IF i = ret'.row + 1 /\ j = ret'.col + 1 THEN ret'.value
                 ELSE Val(mach, hist.a)[i][j]
          /\ Val(mach', hist.b) = Val(mach, hist.b)
          /\ mach'.ub = {}]_vars

\* matrix_set has written the last entry of a (2,3) matrix and matrix_get
\* has read it back
C18_Witness ==
  /\ pc = "matrix"
  /\ ret.op = "set"
  /\ ret.row = 1
  /\ ret.col = 2
  /\ ret.got = NewEntry
  /\ Val(mach, hist.a)[2][3] = NewEntry
  /\ Val(mach, hist.a)[1][1] # NewEntry
----------------------------------------------------------------------------
(* The layout of a model file *)

\* the members of NormalizationParams in declaration order
\* (weather_data.h 27-34)
NormOrder ==
  <<"temp_min", "temp_max", "pressure_min", "pressure_max", "humidity_min",
    "humidity_max", "wind_speed_min", "wind_speed_max", "wind_dir_min",
    "wind_dir_max", "precip_min", "precip_max">>

\* the normalization parameters of the dataset, by name: the fields of a
\* point are temperature, pressure, humidity, wind_speed, wind_direction and
\* precipitation
NamedNorm(s, dataset) ==
  [temp_min |-> Min(FieldValues(s, dataset, 1)), temp_max |-> Max(FieldValues(s, dataset, 1)),
   pressure_min |-> Min(FieldValues(s, dataset, 2)),
   pressure_max |-> Max(FieldValues(s, dataset, 2)),
   humidity_min |-> Min(FieldValues(s, dataset, 3)),
   humidity_max |-> Max(FieldValues(s, dataset, 3)),
   wind_speed_min |-> Min(FieldValues(s, dataset, 4)),
   wind_speed_max |-> Max(FieldValues(s, dataset, 4)),
   wind_dir_min |-> Min(FieldValues(s, dataset, 5)),
   wind_dir_max |-> Max(FieldValues(s, dataset, 5)),
   precip_min |-> Min(FieldValues(s, dataset, 6)),
   precip_max |-> Max(FieldValues(s, dataset, 6))]

\* the words of a model file for the network value n whose normalization
\* parameters, if it has any, are those of the record norm
Layout(n, norm) ==
  <<n.input_size, n.hidden_size, n.output_size>>
  \o DoubleWords(n.learning_rate)
  \o <<n.sequence_length>>
  \o Flatten([i \in 1..n.output_size |->
                Flatten([j \in 1..n.hidden_size |-> DoubleWords(n.W_output[i][j])])])
  \o Flatten([i \in 1..n.output_size |-> DoubleWords(n.b_output[i][1])])
  \o <<IF n.norm # <<>> THEN 1 ELSE 0>>
  \o (IF n.norm # <<>>
      THEN Flatten([k \in 1..Len(NormOrder) |-> DoubleWords(norm[NormOrder[k]])])
      ELSE <<>>)

\* the double at words pos+1, pos+2 of the file contents d
DoubleAt(d, pos) == WordsDouble(SubSeq(d, pos + 1, pos + 2))

\* the position of the flag word: after 6 header words, d[3] rows of d[2]
\* doubles and d[3] doubles
FlagPos(d) == 6 + 2 * d[2] * d[3] + 2 * d[3] + 1

\* the fields at their places in the file contents d
Parsed(d) ==
  [input_size |-> d[1], hidden_size |-> d[2], output_size |-> d[3],
   learning_rate |-> DoubleAt(d, 3), sequence_length |-> d[6],
   W_output |-> Elems([i \in 1..d[3] |->
                         Elems([j \in 1..d[2] |->
                                  DoubleAt(d, 6 + 2 * ((i - 1) * d[2] + (j - 1)))], d[2])],
                      d[3]),
   b_output |-> Elems([i \in 1..d[3] |-> <<DoubleAt(d, 6 + 2 * d[2] * d[3] + 2 * (i - 1))>>],
                      d[3]),
   norm |-> IF Len(d) >= FlagPos(d) /\ d[FlagPos(d)] # 0
            THEN Elems([k \in 1..Len(NormOrder) |-> DoubleAt(d, FlagPos(d) + 2 * (k - 1))],
                       Len(NormOrder))
            ELSE <<>>]

\* C19: save_lstm_model writes input_size, hidden_size, output_size,
\* learning_rate, sequence_length, the rows of W_output, the entries of
\* b_output, the flag (1 iff the network has normalization parameters) and,
\* if the flag is 1, the twelve normalization values in the order temp_min,
\* temp_max, ... precip_min, precip_max; load_lstm_model reads the same
\* fields in the same order.
C19_FileLayout ==
  /\ \A f \in Files :
       Intact(mach, f) =>
         mach.fs[f].data = Layout(hist.saved[f].net, NamedNorm(mach, dsp))
  /\ (ret.op = "load" /\ loadedp # NULL) =>
       Persisted(NetVal(mach, loadedp)) = Parsed(mach.fs[ret.file].data)

\* a network with two output rows of two different weights and with
\* normalization parameters was saved, and the file was loaded
C19_Witness ==
  /\ ret.op = "load"
  /\ loadedp # NULL
  /\ Len(mach.fs[ret.file].data) = MaxFileWords
  /\ mach.fs[ret.file].data[FlagPos(mach.fs[ret.file].data)] = 1
  /\ NetVal(mach, loadedp).W_output[1][1] # NetVal(mach, loadedp).W_output[1][2]
  /\ NetVal(mach, loadedp).W_output[1] # NetVal(mach, loadedp).W_output[2]
  /\ NetVal(mach, loadedp).sequence_length # NetVal(mach, loadedp).learning_rate \div WordBase
  /\ Cardinality({NetVal(mach, loadedp).norm[k] : k \in 1..Len(NormOrder)}) > 2
----------------------------------------------------------------------------
(* The normalization specification: a caller that fills a dataset and      *)
(* normalizes it with the parameters computed from it, as the train        *)
(* program does (lstm.c 890-900)                                           *)

MaxNormSteps == 4
PointKinds == 0..4      \* the points the caller adds: TestPoint(0..4)

InitNorm ==
  \E ds \in {weather_dataset_create(Machine0(0), MaxPoints)} :
    /\ mach = ds.s
    /\ netp = NULL
    /\ loadedp = NULL
    /\ dsp = ds.p
    /\ tdp = NULL
    /\ ret = NoRet
    /\ hist = [normalized |-> 0]
    /\ pc = "norm"
    /\ steps = 0

NormStep == steps < MaxNormSteps /\ steps' = steps + 1

\* dataset->data[0 .. size-1]
Points(s, ds) == SubSeq(s.mem[s.mem[ds].data].pts, 1, s.mem[ds].size)

AddWeather(k) ==
  /\ NormStep
  /\ \E r \in {weather_dataset_add(mach, dsp, TestPoint(k))} :
       /\ mach' = r.s
       /\ ret' = [op |-> "add", v |-> r.v]
  /\ UNCHANGED <<netp, loadedp, dsp, tdp, hist, pc>>

\* calculate_normalization_params, normalize_dataset and free of the
\* parameters
Normalize ==
  /\ NormStep
  /\ \E params \in {calculate_normalization_params(mach, dsp)} :
       /\ mach' = Free(normalize_dataset(params.s, dsp, params.p), params.p)
       /\ ret' = [op |-> "normalize", null |-> params.p = NULL,
                  before |-> Points(mach, dsp), params |-> NormVal(params.s, params.p),
                  after |-> Points(mach', dsp)]
  /\ hist' = [hist EXCEPT !.normalized = @ + 1]
  /\ UNCHANGED <<netp, loadedp, dsp, tdp, pc>>

\* DenormalizedField of a denormalizer that does not add the minimum back
DenormalizedField_scaled(point, v, k) ==
  IF v[2 * k] - v[2 * k - 1] > 0
  THEN FMul(point[k], v[2 * k] - v[2 * k - 1])
  ELSE v[2 * k - 1]

\* the denormalized value of field k of a point
DenormalizedField(point, v, k) ==
  IF v[2 * k] - v[2 * k - 1] > 0
  THEN FMul(point[k], v[2 * k] - v[2 * k - 1]) + v[2 * k - 1]
  ELSE v[2 * k - 1]

\* weather_data.c 228-244, called on a WeatherPoint variable of the caller
\* that holds `point`: the value the variable holds afterwards
denormalize_point(s, point, params) ==
  IF params = NULL THEN point
  ELSE Elems([k \in 1..NumFeatures |-> DenormalizedField(point, s.mem[params].v, k)],
             NumFeatures)

\* the caller normalizes the point TestPoint(k) with the parameters of the
\* dataset, in a dataset of its own, and denormalizes the result
RoundTrip(k) ==
  /\ NormStep
  /\ \E params \in {calculate_normalization_params(mach, dsp)} :
       \E scratch \in {weather_dataset_create(params.s, 1)} :
         \E added \in {weather_dataset_add(scratch.s, scratch.p, TestPoint(k))} :
           \E normalized \in {normalize_dataset(added.s, scratch.p, params.p)} :
             /\ mach' = Free(weather_dataset_free(normalized, scratch.p), params.p)
             /\ ret' = [op |-> "roundtrip", null |-> params.p = NULL, p |-> TestPoint(k),
                        params |-> NormVal(params.s, params.p),
                        normalized |-> PointAt(normalized, scratch.p, 1),
                        back |-> denormalize_point(normalized,
                                                   PointAt(normalized, scratch.p, 1),
                                                   params.p)]
  /\ UNCHANGED <<netp, loadedp, dsp, tdp, hist, pc>>

NextNorm ==
  \/ \E k \in PointKinds : AddWeather(k)
  \/ Normalize
  \/ \E k \in PointKinds : RoundTrip(k)

SpecNorm == InitNorm /\ [][NextNorm]_vars

\* the values of feature k over the points pts
Feature(pts, k) == {pts[i][k] : i \in 1..Len(pts)}

\* C20 as stated: for every non-empty dataset, normalize_dataset with the
\* parameters calculate_normalization_params computed from it maps, for each
\* of the six features, every point holding the minimum of the feature to
\* 0.0 and every point holding the maximum to 1.0.
C20_MinToZeroMaxToOne ==
  (ret.op = "normalize" /\ ret.before # <<>>) =>
    \A k \in 1..NumFeatures, i \in 1..Len(ret.before) :
      /\ ret.before[i][k] = Min(Feature(ret.before, k)) => ret.after[i][k] = 0
      /\ ret.before[i][k] = Max(Feature(ret.before, k)) => ret.after[i][k] = Scale

\* C20 amended: the same for each feature whose minimum over the dataset is
\* smaller than its maximum.
C20_MinToZeroMaxToOneIfRange ==
  (ret.op = "normalize" /\ ret.before # <<>>) =>
    /\ ~ret.null
    /\ Len(ret.after) = Len(ret.before)
    /\ \A k \in 1..NumFeatures :
         Min(Feature(ret.before, k)) < Max(Feature(ret.before, k)) =>
           \A i \in 1..Len(ret.before) :
             /\ ret.before[i][k] = Min(Feature(ret.before, k)) => ret.after[i][k] = 0
             /\ ret.before[i][k] = Max(Feature(ret.before, k)) => ret.after[i][k] = Scale

\* a dataset of three points with three different temperatures, none of
\* them 0.0 or 1.0 at the minimum and the maximum, has been normalized
C20_Witness ==
  /\ ret.op = "normalize"
  /\ Len(ret.before) = 3
  /\ Cardinality(Feature(ret.before, 1)) = 3
  /\ Min(Feature(ret.before, 1)) # 0
  /\ Max(Feature(ret.before, 1)) # Scale
  /\ Feature(ret.after, 1) \ {0, Scale} # {}
  /\ 0 \in Feature(ret.after, 1)
  /\ Scale \in Feature(ret.after, 1)
----------------------------------------------------------------------------
(* Round trip of normalization *)

\* field k of the point p lies within the range of the parameters v
InRange(p, v, k) == v[2 * k - 1] <= p[k] /\ p[k] <= v[2 * k]

\* the rounding error of a quotient (less than one unit) multiplied by the
\* range, plus the rounding of the product
Tolerance(v, k) == (v[2 * k] - v[2 * k - 1]) \div Scale + 1

\* C21: for params computed from a dataset and a point p whose features lie
\* within the [min, max] ranges of params, normalizing p and denormalizing
\* the result with the same params yields p again within tolerance, and
\* exactly p for a feature whose min equals max.
C21_DenormalizeInvertsNormalize ==
  (ret.op = "roundtrip" /\ ~ret.null) =>
    \A k \in 1..NumFeatures :
      InRange(ret.p, ret.params, k) =>
        /\ ret.back[k] - ret.p[k] <= Tolerance(ret.params, k)
        /\ ret.p[k] - ret.back[k] <= Tolerance(ret.params, k)
        /\ ret.params[2 * k - 1] = ret.params[2 * k] => ret.back[k] = ret.p[k]

\* a point that lies within all six ranges has made the round trip; one of
\* its features is constant over the dataset, another lies strictly between
\* the minimum and the maximum
C21_Witness ==
  /\ ret.op = "roundtrip"
  /\ ~ret.null
  /\ \A k \in 1..NumFeatures : InRange(ret.p, ret.params, k)
  /\ \E k \in 1..NumFeatures : ret.params[2 * k - 1] = ret.params[2 * k]
  /\ \E k \in 1..NumFeatures :
       ret.params[2 * k - 1] < ret.p[k] /\ ret.p[k] < ret.params[2 * k]
  /\ ret.normalized # ret.p
----------------------------------------------------------------------------
(* Reset and creation of the cell *)

\* the (n,1) matrix of zeros
ZeroColumn(n) == Elems([i \in 1..n |-> <<0>>], n)

\* the blocks that hold the entries of hidden_state and cell_state
StateRows(s, cell) ==
  {RowAddr(s, s.mem[cell].hidden_state, i) : i \in 1..Rows(s, s.mem[cell].hidden_state)}
  \cup {RowAddr(s, s.mem[cell].cell_state, i) : i \in 1..Rows(s, s.mem[cell].cell_state)}

\* C22: lstm_cell_reset_state and lstm_network_reset set every entry of
\* hidden_state and cell_state to 0 and change nothing else (weights,
\* biases, sizes, the output layer, every other block); a second reset
\* changes nothing.
C22_ResetClearsOnlyTheStates ==
  [][ret'.op = "reset_state" =>
       /\ Val(mach', mach'.mem[Cell].hidden_state) = ZeroColumn(mach.mem[Cell].hidden_size)
       /\ Val(mach', mach'.mem[Cell].cell_state) = ZeroColumn(mach.mem[Cell].hidden_size)
       /\ NetVal(mach', netp) =
            [NetVal(mach, netp) EXCEPT
               !.cell = [@ EXCEPT !["hidden_state"] = ZeroColumn(mach.mem[Cell].hidden_size),
                                  !["cell_state"] = ZeroColumn(mach.mem[Cell].hidden_size)]]
       /\ Len(mach'.mem) = Len(mach.mem)
       /\ \A a \in 1..Len(mach.mem) :
            a \notin StateRows(mach, Cell) => mach'.mem[a] = mach.mem[a]
       /\ [mach' EXCEPT !.mem = mach.mem] = mach
       /\ lstm_cell_reset_state(mach', Cell') = mach'
       /\ lstm_network_reset(mach', netp) = mach']_vars

\* a reset has cleared a hidden state and a cell state that were not zero
C22_Witness ==
  /\ ret.op = "reset_state"
  /\ \E i \in 1..Len(ret.hidden) : ret.hidden[i][1] # 0
  /\ \E i \in 1..Len(ret.cell) : ret.cell[i][1] # 0
  /\ Val(mach, mach.mem[Cell].hidden_state) = ZeroColumn(mach.mem[Cell].hidden_size)
  /\ Val(mach, mach.mem[Cell].cell_state) = ZeroColumn(mach.mem[Cell].hidden_size)

----------------------------------------------------------------------------
(* The creation specification: a caller that creates cells of several      *)
(* sizes and frees them (test_lstm_cell, src/unnamed/part_005 146-192)     *)

MaxCreateSteps == 3
InputSizes == {1, 2, NumFeatures}
HiddenSizes == {1, 2}

InitCreate ==
  \E seed \in 0..RandMax :
    /\ mach = Machine0(seed)
    /\ netp = NULL
    /\ loadedp = NULL
    /\ dsp = NULL
    /\ tdp = NULL
    /\ ret = NoRet
    /\ hist = [cell |-> NULL]
    /\ pc = "create"
    /\ steps = 0

CreateStep == steps < MaxCreateSteps /\ steps' = steps + 1

CreateCell(input_size, hidden_size) ==
  /\ CreateStep
  /\ hist.cell = NULL
  /\ \E r \in {lstm_cell_create(mach, input_size, hidden_size)} :
       /\ mach' = r.s
       /\ hist' = [cell |-> r.p]
       /\ ret' = [op |-> "cell_create", input_size |-> input_size,
                  hidden_size |-> hidden_size, null |-> r.p = NULL]
  /\ UNCHANGED <<netp, loadedp, dsp, tdp, pc>>

FreeCell ==
  /\ CreateStep
  /\ hist.cell # NULL
  /\ mach' = lstm_cell_free(mach, hist.cell)
  /\ hist' = [cell |-> NULL]
  /\ ret' = [op |-> "cell_free"]
  /\ UNCHANGED <<netp, loadedp, dsp, tdp, pc>>

NextCreate ==
  \/ \E input_size \in InputSizes, hidden_size \in HiddenSizes :
       CreateCell(input_size, hidden_size)
  \/ FreeCell

SpecCreate == InitCreate /\ [][NextCreate]_vars

\* the matrix cell->name
Member(name) == mach.mem[hist.cell][name]

\* the (n,1) matrix of ones
OneColumn(n) == Elems([i \in 1..n |-> <<Scale>>], n)

\* C23: right after a successful lstm_cell_create(input_size, hidden_size)
\* every entry of b_f is 1.0, every entry of b_i, b_c, b_o, hidden_state and
\* cell_state is 0, the W matrices have shape (hidden_size, input_size), the
\* U matrices (hidden_size, hidden_size), the biases and states
\* (hidden_size, 1).
C23_CellAfterCreation ==
  (ret.op = "cell_create" /\ ~ret.null) =>
    /\ mach.mem[hist.cell].input_size = ret.input_size
    /\ mach.mem[hist.cell].hidden_size = ret.hidden_size
    /\ Val(mach, Member("b_f")) = OneColumn(ret.hidden_size)
    /\ \A n \in {"b_i", "b_c", "b_o", "hidden_state", "cell_state"} :
         Val(mach, Member(n)) = ZeroColumn(ret.hidden_size)
    /\ \A n \in {"W_f", "W_i", "W_c", "W_o"} :
         Shape(mach, Member(n)) = <<ret.hidden_size, ret.input_size>>
    /\ \A n \in {"U_f", "U_i", "U_c", "U_o"} :
         Shape(mach, Member(n)) = <<ret.hidden_size, ret.hidden_size>>
    /\ \A n \in {"b_f", "b_i", "b_c", "b_o", "hidden_state", "cell_state"} :
         Shape(mach, Member(n)) = <<ret.hidden_size, 1>>
    /\ mach.ub = {}

\* a cell with six inputs and two hidden units has been created, with
\* weights that are not zero
C23_Witness ==
  /\ ret.op = "cell_create"
  /\ ~ret.null
  /\ ret.input_size = NumFeatures
  /\ ret.hidden_size = 2
  /\ \E i \in 1..2, j \in 1..NumFeatures : Val(mach, Member("W_f"))[i][j] # 0
  /\ Val(mach, Member("b_f")) = <<<<Scale>>, <<Scale>>>>
----------------------------------------------------------------------------
(* The CSV specification: a caller that loads a data file into a dataset   *)
(* (lstm.c 871-877), once or twice.  The file has a header with or without *)
(* the timestamp columns and up to MaxCsvLines data lines: records,        *)
(* lines with a missing field, lines with a field that is not a number and *)
(* lines that do not fit into the line buffer.                             *)

MaxCsvSteps == 2
MaxCsvLines == 2
CsvKinds == {"record 1", "record 2", "short", "text", "long"}

\* a data line of the given kind
CsvLineOf(kind, has_timestamps) ==
  IF kind = "record 1" THEN CsvLine(1, has_timestamps)
  ELSE IF kind = "record 2" THEN CsvLine(2, has_timestamps)
  ELSE IF kind = "short"
  THEN SubSeq(CsvLine(1, has_timestamps), 1, Len(CsvLine(1, has_timestamps)) - 1)
  ELSE IF kind = "text"
  THEN [CsvLine(1, has_timestamps) EXCEPT ![Len(CsvLine(1, has_timestamps)) - 1] = <<>>]
  ELSE CsvLine(1, has_timestamps)
       \o Array(LineBuf - Len(CsvLine(1, has_timestamps)), <<0>>)
       \o CsvLine(2, has_timestamps)

CsvHeader(has_timestamps) ==
  (IF has_timestamps THEN <<"timestamp", "unix_timestamp">> ELSE <<>>) \o LegacyHeader

InitCsv ==
  \E has_timestamps \in BOOLEAN, n \in 0..MaxCsvLines, prefilled \in 0..1 :
    \E kinds \in [1..n -> CsvKinds] :
      \E ds \in {MakeDataset(
                   [Machine0(0) EXCEPT !.fs["data.csv"] =
                      [exists |-> TRUE,
                       data |-> <<CsvHeader(has_timestamps)>>
                                \o Elems([k \in 1..n |-> CsvLineOf(kinds[k], has_timestamps)],
                                         n)]],
                   MaxPoints, prefilled)} :
        /\ mach = ds.s
        /\ netp = NULL
        /\ loadedp = NULL
        /\ dsp = ds.p
        /\ tdp = NULL
        /\ ret = NoRet
        /\ hist = [has_timestamps |-> has_timestamps, kinds |-> Elems(kinds, n)]
        /\ pc = "csv"
        /\ steps = 0

LoadCsv(f) ==
  /\ steps < MaxCsvSteps
  /\ steps' = steps + 1
  /\ \E r \in {weather_load_csv(mach, f, dsp)} :
       /\ mach' = r.s
       /\ ret' = [op |-> "load_csv", file |-> f, v |-> r.v, before |-> Points(mach, dsp),
                  after |-> Points(r.s, dsp)]
  /\ UNCHANGED <<netp, loadedp, dsp, tdp, hist, pc>>

NextCsv == \E f \in DataFiles : LoadCsv(f)

SpecCsv == InitCsv /\ [][NextCsv]_vars

\* the well-formed records (six parsed fields) among the lines, in order
RECURSIVE Records(_, _)
Records(lines, has_timestamps) ==
  IF lines = <<>> THEN <<>>
  ELSE (IF ParsedPoint(Head(lines), has_timestamps) = <<>> THEN <<>>
        ELSE <<ParsedPoint(Head(lines), has_timestamps)>>)
       \o Records(Tail(lines), has_timestamps)

\* C24: weather_load_csv never takes the first line for a record; it appends
\* the well-formed records of the remaining lines in file order and skips
\* the malformed lines, so that it returns 0 and the dataset is its previous
\* contents followed by the well-formed records of the file.
C24_LoadAppendsTheRecords ==
  ret.op = "load_csv" =>
    /\ ret.v = 0
    /\ ret.after = ret.before \o Records(Tail(mach.fs[ret.file].data), hist.has_timestamps)
    /\ mach.nopen = 0
----------------------------------------------------------------------------
(* The loss *)

\* the sum of the squared differences of the entries i.., row by row
RECURSIVE SquaredError(_, _, _)
SquaredError(P, T, i) ==
  IF i > Len(P) THEN 0
  ELSE SeqSum([j \in 1..Len(P[i]) |-> ((P[i][j] - T[i][j]) * (P[i][j] - T[i][j])) \div Scale])
       + SquaredError(P, T, i + 1)

\* C25: calculate_loss returns the sentinel -1.0 exactly when an argument is
\* null or the shapes differ; for operands of the same shape it returns the
\* mean of the squared differences of the entries, which is never negative.
C25_LossOrSentinel ==
  [][ret'.op = "loss" =>
       /\ ret'.v = -Scale <=>
            \/ "null" \in {ret'.predicted, ret'.target}
            \/ Shape(mach, Operand(ret'.predicted)) # Shape(mach, Operand(ret'.target))
       /\ ret'.v # -Scale =>
            /\ ret'.v >= 0
            /\ ret'.v = SquaredError(Val(mach, Operand(ret'.predicted)),
                                     Val(mach, Operand(ret'.target)), 1)
                        \div (Rows(mach, Operand(ret'.predicted))
                              * Cols(mach, Operand(ret'.predicted)))]_vars

\* the loss of two different (2,2) matrices has been computed; it is
\* positive
C25_Witness ==
  /\ ret.op = "loss"
  /\ ret.predicted = "a"
  /\ ret.target = "b"
  /\ Shape(mach, hist.a) = <<2, 2>>
  /\ Shape(mach, hist.b) = <<2, 2>>
  /\ ret.v > 0
----------------------------------------------------------------------------
(* The exit-path specification: the training program is run from its       *)
(* first statement to its return, on a data file that exists or does not,  *)
(* while the allocator can satisfy only a given number of requests         *)

MaxExitRuns == 1
MaxBudget == 130    \* largest number of requests after which the allocator fails

\* lines 928-979: r is the run at the configured network, or the exited run
main_run(r, args) ==
  IF r.code # -1 THEN r
  ELSE Exited(main_finish(save_lstm_model(main_train(r.s, r.network, r.training_data,
                                                     args),
                                          r.network, args.output),
                          r.network, r.training_data, r.dataset), 0)

\* lines 811-980: the training program
main(s, args) == main_run(main_setup(s, args), args)

\* What a run has created by the time it returns: the pointers the
\* creations of lines 871, 892, 904 and 916 have returned, NULL for a
\* creation that failed or was not reached
NoneCreated ==
  [dataset |-> NULL, norm_params |-> NULL, training_data |-> NULL, network |-> NULL]

created_training_data(training_data, norm_params, dataset, args) ==
  [dataset |-> dataset, norm_params |-> norm_params, training_data |-> training_data.p,
   network |-> IF training_data.p = NULL THEN NULL
               ELSE lstm_network_create(training_data.s, NumFeatures, args.hidden,
                                        NumFeatures).p]

created_norm_params(norm_params, dataset, args) ==
  IF norm_params.p = NULL THEN [NoneCreated EXCEPT !.dataset = dataset]
  ELSE created_training_data(
         create_training_data(normalize_dataset(norm_params.s, dataset, norm_params.p),
                              dataset, args.sequence),
         norm_params.p, dataset, args)

created_loaded(r, dataset, args) ==
  IF r.v # 0 \/ r.s.mem[dataset].size <= args.sequence
  THEN [NoneCreated EXCEPT !.dataset = dataset]
  ELSE created_norm_params(calculate_normalization_params(r.s, dataset), dataset, args)

created_dataset(dataset, args) ==
  IF dataset.p = NULL THEN NoneCreated
  ELSE created_loaded(weather_load_csv(dataset.s, args.data, dataset.p), dataset.p, args)

Created(s, args) ==
  created_dataset(weather_dataset_create([s EXCEPT !.rng = args.seed], InitialCapacity),
                  args)

\* lines 942-944: the test prediction of the run r at the configured network
Predicted(r, args) ==
  IF r.code # -1 THEN NULL
  ELSE lstm_network_predict(
         lstm_train(r.s, r.network, r.training_data, args.epochs), r.network,
         r.s.mem[r.s.mem[r.training_data].inputs].ptrs[
           r.s.mem[r.training_data].num_sequences],
         args.sequence).p

ExitArgs ==
  [data : {"data.csv"}, output : {"a.bin"}, epochs : {1}, hidden : {1},
   sequence : {MaxSeqLen, MaxPoints}, learning_rate : {Scale \div 2}, seed : Seeds]

InitExit ==
  \E exists \in BOOLEAN, has_timestamps \in BOOLEAN, k \in -1..MaxBudget :
    /\ mach = [Budget(Machine0(0), k) EXCEPT !.fs["data.csv"] =
                 [exists |-> exists, data |-> CsvSample(has_timestamps)]]
    /\ netp = NULL
    /\ loadedp = NULL
    /\ dsp = NULL
    /\ tdp = NULL
    /\ ret = NoRet
    /\ hist = [args |-> <<>>]
    /\ pc = "shell"
    /\ steps = 0

\* one run of the program, from the command line to the exit code
RunMain(args) ==
  /\ pc = "shell"
  /\ steps < MaxExitRuns
  /\ steps' = steps + 1
  /\ \E r \in {main(mach, args)} :
       /\ mach' = r.s
       /\ ret' = [op |-> "main", code |-> r.code, created |-> Created(mach, args),
                  predicted |-> Predicted(main_setup(mach, args), args)]
  /\ hist' = [hist EXCEPT !.args = args]
  /\ UNCHANGED <<netp, loadedp, dsp, tdp, pc>>

NextExit == \E args \in ExitArgs : RunMain(args)

SpecExit == InitExit /\ [][NextExit]_vars

----------------------------------------------------------------------------
(* Properties of the exit-path specification *)

\* the resources of a run: the pointers it has created
Resources(r) ==
  {r.created.dataset, r.created.norm_params, r.created.training_data,
   r.created.network, r.predicted} \ {NULL}

Activation(k, v) == IF Gates[k][5] = "sigmoid" THEN sigmoid(v) ELSE tanh_activation(v)

\* C27: in one successful lstm_cell_forward step with a valid input x, the
\* four gates are act(W*x + U*h_prev + b) for the hidden state from before
\* the call (sigmoid for forget, input and output, tanh for the candidate);
\* the new cell state is forget * cell_prev + input * candidate for the cell
\* state from before the call; and the new hidden state is
\* output * tanh(new cell state).
C27_ForwardUsesThePreviousState ==
  [][(ret'.op = "forward" /\ ~ret'.null) =>
       /\ \A k \in 1..Len(Gates) :
            Val(mach', mach'.mem[Cell][Gates[k][4]]) =
              [i \in 1..mach.mem[Cell].hidden_size |->
                 <<Activation(k, RefGate(CellVal(mach, Cell), k, ret'.input,
                                         Val(mach, mach.mem[Cell].hidden_state), i))>>]
       /\ Val(mach', mach'.mem[Cell].cell_state) =
            RefCellState(CellVal(mach, Cell), ret'.input,
                         Val(mach, mach.mem[Cell].hidden_state),
                         Val(mach, mach.mem[Cell].cell_state))
       /\ Val(mach', mach'.mem[Cell].hidden_state) =
            [i \in 1..mach.mem[Cell].hidden_size |->
               <<FMul(Val(mach', mach'.mem[Cell].output_gate)[i][1],
                      tanh_activation(Val(mach', mach'.mem[Cell].cell_state)[i][1]))>>]]_vars

\* the second of two forward steps in a row: the step has found the hidden
\* state that the first step returned, which is not zero, and has changed it
C27_Witness ==
  /\ ret.op = "forward"
  /\ steps = 2
  /\ Len(hist.outs) = 2
  /\ \E i \in 1..mach.mem[Cell].hidden_size : Val(mach, hist.outs[1])[i][1] # 0
  /\ Val(mach, hist.outs[1]) # Val(mach, hist.outs[2])
----------------------------------------------------------------------------
(* The training specification: a caller that holds a network and training  *)
(* data replaces matrices of the training data, by matrices of the right   *)
(* or of another shape, and trains the network                             *)

MaxTrainSteps == 2

\* the slots the caller replaces (pair, timestep; timestep 0 is the target)
\* and the values of the new matrices
TrainSlots == {<<1, 0>>, <<2, 0>>, <<1, 1>>, <<2, 2>>}
NewColumns == {Column(NumFeatures + 1, Scale, 0), Column(NumFeatures, 0, Scale)}

InitTrain ==
  \E seed \in Seeds, dims \in NetDims, lr \in {Scale \div 2} :
    \E ds \in {MakeDataset(Machine0(seed), MaxPoints, MaxPoints)} :
      \E td \in {create_training_data(ds.s, ds.p, MaxSeqLen)} :
        \E net \in {lstm_network_create(td.s, dims[1], dims[2], dims[3])} :
          /\ mach = [net.s EXCEPT !.mem[net.p].learning_rate = lr]
          /\ netp = net.p
          /\ loadedp = NULL
          /\ dsp = ds.p
          /\ tdp = td.p
          /\ ret = NoRet
          /\ hist = [created |-> NetVal(net.s, net.p)]
          /\ pc = "trainer"
          /\ steps = 0

TrainStep == steps < MaxTrainSteps /\ steps' = steps + 1

\* the caller frees the matrix of a slot and puts a new matrix in its place
ReplaceSlot(sl, v) ==
  /\ TrainStep
  /\ \E m \in {MakeMatrix(matrix_free(mach, SlotPtr(mach, tdp, sl)), v)} :
       mach' = IF sl[2] = 0
               THEN [m.s EXCEPT !.mem[m.s.mem[tdp].targets].ptrs[sl[1]] = m.p]
               ELSE [m.s EXCEPT
                       !.mem[m.s.mem[m.s.mem[tdp].inputs].ptrs[sl[1]]].ptrs[sl[2]] = m.p]
  /\ ret' = [op |-> "replace", slot |-> sl]
  /\ UNCHANGED <<netp, loadedp, dsp, tdp, hist, pc>>

\* the caller frees the matrix of a slot and leaves a null pointer in its place
ClearSlot(sl) ==
  /\ TrainStep
  /\ \E s \in {matrix_free(mach, SlotPtr(mach, tdp, sl))} :
       mach' = IF sl[2] = 0
               THEN [s EXCEPT !.mem[s.mem[tdp].targets].ptrs[sl[1]] = NULL]
               ELSE [s EXCEPT !.mem[s.mem[s.mem[tdp].inputs].ptrs[sl[1]]].ptrs[sl[2]] = NULL]
  /\ ret' = [op |-> "clear", slot |-> sl]
  /\ UNCHANGED <<netp, loadedp, dsp, tdp, hist, pc>>

\* lstm_train; the caller notes the network and the training data it passed
TrainOn(epochs) ==
  /\ TrainStep
  /\ mach' = lstm_train(mach, netp, tdp, epochs)
  /\ ret' = [op |-> "train", epochs |-> epochs, before |-> NetVal(mach, netp),
             targets |-> [i \in 1..mach.mem[tdp].num_sequences |->
                            Shape(mach, TargetAt(mach, tdp, i))]]
  /\ UNCHANGED <<netp, loadedp, dsp, tdp, hist, pc>>

NextTrain ==
  \/ \E sl \in TrainSlots, v \in NewColumns : ReplaceSlot(sl, v)
  \/ \E sl \in TrainSlots : ClearSlot(sl)
  \/ \E epochs \in -1..MaxEpochs : TrainOn(epochs)

SpecTrain == InitTrain /\ [][NextTrain]_vars

----------------------------------------------------------------------------
(* Properties of the training specification *)

\* W_output + learning_rate * (target - prediction) * h^T, where r is the
\* result of the prediction of a pair and h the hidden state it has left; the
\* value of W_output as it is if the prediction is null or the target has not
\* the prediction's shape
UpdatedWeights(r, network, target) ==
  IF r.p = NULL \/ Shape(r.s, target) # Shape(r.s, r.p)
  THEN Val(r.s, r.s.mem[network].W_output)
  ELSE [i \in 1..r.s.mem[network].output_size |->
          [j \in 1..r.s.mem[network].hidden_size |->
             Get(r.s, r.s.mem[network].W_output, i, j)
             + FMul(FMul(Get(r.s, target, i, 1) - Get(r.s, r.p, i, 1),
                         r.s.mem[network].learning_rate),
                    Get(r.s, r.s.mem[r.s.mem[network].lstm_layer].hidden_state, j, 1))]]

\* the machine after the pair: the prediction is released, W_output replaced
AfterPair(r, network, target) ==
  After(r, Store(matrix_free(r.s, r.p), r.s.mem[network].W_output,
                 UpdatedWeights(r, network, target)))

\* the machine after the pairs pair.. of the epoch and the epochs after it,
\* in index order
RECURSIVE InOrder(_, _, _, _, _, _)
InOrder(s, network, data, epoch, pair, epochs) ==
  After(s,
    IF epoch >= epochs THEN s
    ELSE IF pair > s.mem[data].num_sequences
    THEN InOrder(s, network, data, epoch + 1, 1, epochs)
    ELSE InOrder(AfterPair(lstm_network_predict(s, network,
                                                s.mem[s.mem[data].inputs].ptrs[pair],
                                                s.mem[data].sequence_length),
                           network, s.mem[s.mem[data].targets].ptrs[pair]),
                 network, data, epoch, pair + 1, epochs))

\* the value of the output weights of the network
OutputWeights(s, network) == Val(s, s.mem[network].W_output)

\* C28: lstm_train processes the epochs in order and, within each epoch, the
\* pairs in index order; for each pair whose prediction succeeds and whose
\* target has the prediction's shape it replaces W_output by
\* W_output + learning_rate * (target - prediction) * h^T, the prediction
\* being computed with the W_output left by all earlier updates and h being
\* the hidden state after the last timestep of the pair; any other pair
\* leaves W_output unchanged; with epochs <= 0 no weight changes.
C28_TrainUpdatesInOrder ==
  [][ret'.op = "train" =>
       /\ OutputWeights(mach', netp) =
            OutputWeights(InOrder(mach, netp, tdp, 0, 1, ret'.epochs), netp)
       /\ (ret'.epochs <= 0) => (NetVal(mach', netp) = NetVal(mach, netp))]_vars

\* a training of two epochs over a pair that is updated and a pair whose
\* target has another shape or is null has changed W_output
C28_Witness ==
  /\ ret.op = "train"
  /\ ret.epochs = 2
  /\ \E i \in 1..Len(ret.targets) : ret.targets[i] = <<ret.before.output_size, 1>>
  /\ \E i \in 1..Len(ret.targets) : ret.targets[i] # <<ret.before.output_size, 1>>
  /\ Val(mach, mach.mem[netp].W_output) # ret.before.W_output

\* the machine in which the matrices ps hold other values: one more in every entry
RECURSIVE Shifted(_, _)
Shifted(s, ps) ==
  IF ps = <<>> THEN s
  ELSE Shifted(Store(s, Head(ps),
                     [i \in 1..Rows(s, Head(ps)) |->
                        [j \in 1..Cols(s, Head(ps)) |-> Get(s, Head(ps), i, j) + Scale]]),
               Tail(ps))

\* a network that agrees with the network on everything but its cell: every
\* weight, bias, gate and state of the cell is another value
OtherCell(s, network) == Shifted(s, CellPtrs(s, s.mem[network].lstm_layer))

\* the cell weights and biases of the network a load has returned
LoadedCell(r) ==
  IF r.p = NULL THEN <<>> ELSE CellVal(r.s, r.s.mem[r.p].lstm_layer)

\* C29: the file written by save_lstm_model does not depend on the cell:
\* two networks that agree on the sizes, learning_rate, sequence_length,
\* W_output, b_output and the normalization parameters produce the same file
\* even if every weight, bias and state of their cells differs; and the cell
\* of a loaded network does not depend on the cell of the saved one.
C29_FileIgnoresTheCell ==
  [][/\ (ret'.op = "save" /\ ret'.v = 0) =>
          /\ \A n \in DOMAIN CellVal(mach, Cell) :
               CellVal(OtherCell(mach, netp), Cell)[n] # CellVal(mach, Cell)[n]
          /\ save_lstm_model(OtherCell(mach, netp), netp, ret'.file).s.fs[ret'.file]
               = mach'.fs[ret'.file]
     /\ (ret'.op = "load" /\ ~ret'.null) =>
          LoadedCell(load_lstm_model(OtherCell(mach, netp), ret'.file))
            = CellVal(mach', mach'.mem[loadedp'].lstm_layer)]_vars

\* a network was saved and loaded again: the loaded network has the output
\* weights of the saved one and other cell weights
C29_Witness ==
  /\ ret.op = "load"
  /\ loadedp # NULL
  /\ hist.saved[ret.file].ok
  /\ Val(mach, mach.mem[loadedp].W_output) = Val(mach, mach.mem[netp].W_output)
  /\ \E k \in 1..Len(WeightNames) :
       Val(mach, mach.mem[mach.mem[loadedp].lstm_layer][WeightNames[k]])
         # Val(mach, mach.mem[Cell][WeightNames[k]])
----------------------------------------------------------------------------
(* The capacity specification: a caller creates a dataset with a small     *)
(* initial capacity, zero included, and adds points to it, while the       *)
(* allocator can satisfy only a given number of requests                   *)

MaxCapSteps == 4
Capacities == 0..2
CapBudgets == {-1, 2, 3}
CapKinds == 0..1

InitCap ==
  \E c \in Capacities, k \in CapBudgets, malloc0null \in BOOLEAN :
    \E ds \in {weather_dataset_create(
                 [Budget(Machine0(0), k) EXCEPT !.malloc0null = malloc0null], c)} :
      /\ mach = ds.s
      /\ netp = NULL
      /\ loadedp = NULL
      /\ dsp = ds.p
      /\ tdp = NULL
      /\ ret = NoRet
      /\ hist = [initial_capacity |-> c, added |-> <<>>]
      /\ pc = "capacity"
      /\ steps = 0

\* what the caller sees of the dataset: its size, its capacity and the
\* points of the allocated array
Seen(s, ds) ==
  [size |-> s.mem[ds].size, capacity |-> s.mem[ds].capacity,
   pts |-> IF IsLive(s, s.mem[ds].data) THEN s.mem[s.mem[ds].data].pts ELSE <<>>]

\* weather_dataset_add of point k; the caller notes the points whose add
\* returned 0
AddTo(k) ==
  /\ steps < MaxCapSteps
  /\ steps' = steps + 1
  /\ dsp # NULL
  /\ \E r \in {weather_dataset_add(mach, dsp, TestPoint(k))} :
       /\ mach' = r.s
       /\ ret' = [op |-> "add", v |-> r.v, before |-> Seen(mach, dsp)]
       /\ hist' = IF r.v = 0 THEN [hist EXCEPT !.added = Append(@, TestPoint(k))]
                  ELSE hist
  /\ UNCHANGED <<netp, loadedp, dsp, tdp, pc>>

NextCap == \E k \in CapKinds : AddTo(k)

SpecCap == InitCap /\ [][NextCap]_vars

----------------------------------------------------------------------------
(* Properties of the capacity specification *)

\* C30: for a dataset created by weather_dataset_create(c) with any initial
\* capacity c >= 0, zero included, after any sequence of weather_dataset_add
\* calls: size <= capacity, size is the number of adds that returned 0,
\* data[0..size) are the points of those adds in call order, every stored
\* index is within the allocated capacity, and an add that returns -1 leaves
\* size, capacity and the stored points unchanged.
C30_AddKeepsTheDataset ==
  dsp # NULL =>
    /\ Seen(mach, dsp).size <= Seen(mach, dsp).capacity
    /\ Seen(mach, dsp).size = Len(hist.added)
    /\ Seen(mach, dsp).size <= Len(Seen(mach, dsp).pts)
    /\ \A i \in 1..Len(hist.added) :
         i <= Len(Seen(mach, dsp).pts) /\ Seen(mach, dsp).pts[i] = hist.added[i]
    /\ "out of bounds write" \notin mach.ub
    /\ (ret.op = "add" /\ ret.v = -1) =>
         /\ Seen(mach, dsp).size = ret.before.size
         /\ Seen(mach, dsp).capacity = ret.before.capacity
         /\ \A i \in 1..ret.before.size : Seen(mach, dsp).pts[i] = ret.before.pts[i]
====
